---- MODULE Spec2Model ----
(***************************************************************************)
(* SpendWise / Go Finance: the analytics aggregation of the server         *)
(* (GET /api/analytics/trends, GET /api/analytics/categories) and of the   *)
(* client (dashboard percentChange, SpendingTrendsModal).                  *)
(*                                                                         *)
(* Modelling conventions                                                   *)
(*  - An instant is an integer number of ticks of local time; there are    *)
(*    TicksPerDay ticks in a day and tick 0 of a day is local midnight.    *)
(*    Day 0 is 2023-01-01, a Sunday.  Daylight saving is not modelled.     *)
(*  - Amounts and totals are integers (minor units), so sums are exact.    *)
(*  - A JavaScript quotient is kept as the fraction [num, den]; den = 0    *)
(*    encodes the non-finite results: num = 0 is NaN, num > 0 is Infinity, *)
(*    num < 0 is -Infinity.                                                *)
(*  - Array.prototype.sort is stable (ECMAScript 2019).                    *)
(***************************************************************************)
EXTENDS Integers, Sequences, FiniteSets, TLC

VARIABLES
    db,         \* the Expense collection, in insertion (natural) order
    nextId,     \* the next _id the store hands out
    clock,      \* the server's clock: the instant of the last request
    res,        \* the response of the last request
    cExpenses,              \* App.tsx: the expenses state of the client
    onboardingComplete,     \* App.tsx: the onboardingComplete state
    showFirstTimeGuide,     \* App.tsx: the showFirstTimeGuide state
    hasSeenFirstTimeGuide,  \* localStorage: the key hasSeenFirstTimeGuide is set
    cNow,                   \* the client's clock (UTC)
    budgets,    \* the Budget collection, in insertion (natural) order
    pending,    \* POST /api/budgets requests between the find and the write of
                \* their findOneAndUpdate
    tz,         \* the client's time zone: local time is UTC + tz ticks
    users,      \* the User collection, in insertion (natural) order
    registering,\* POST /api/auth/register requests between their findOne and
                \* their save
    trending,   \* the GET /api/analytics/trends request in flight: the totals
                \* its queries have found so far
    hits,       \* the rate limiter's count of requests in the current window
    req,        \* the last request to a route behind authMiddleware
    storage,    \* localStorage: the values of the keys expenses and savingGoals
    savingGoals,\* App.tsx: the savingGoals state of the client
    mounts,     \* how many times the App has been mounted (page loads)
    wizard,     \* Onboarding: the state of the component and the calls of
                \* its onComplete prop
    modal       \* AddExpenseModal: the state of the component and the calls
                \* of its onAdd and onClose props

vars == <<db, nextId, clock, res,
          cExpenses, onboardingComplete, showFirstTimeGuide, hasSeenFirstTimeGuide, cNow,
          budgets, pending, tz, users, registering, trending, hits, req,
          storage, savingGoals, mounts, wizard, modal>>

budgetVars == <<budgets, pending>>
apiVars    == <<users, registering, trending, hits, req>>
serverVars == <<db, nextId, clock, res, budgets, pending, apiVars>>
uiVars     == <<mounts, wizard, modal>>
clientVars == <<cExpenses, onboardingComplete, showFirstTimeGuide, hasSeenFirstTimeGuide, cNow, tz,
                storage, savingGoals, uiVars>>

(***************************************************************************)
(* Bounds                                                                  *)
(***************************************************************************)
TicksPerDay == 2
HorizonDays == 16
MaxTrendDocs == 2
MonthHorizonDays == 65
MaxMonthDocs == 1
MaxCatDocs == 6
MaxModalExpenses == 3
MaxDashExpenses == 2
DashDaysBack == 15

(***************************************************************************)
(* Program constants                                                       *)
(***************************************************************************)
TopN == 5

ExpenseCategories ==
    {"Food", "Transport", "Entertainment", "Shopping", "Bills", "Health", "Education", "Other"}

(***************************************************************************)
(* Generic helpers                                                         *)
(***************************************************************************)
Min(a, b) == IF a <= b THEN a ELSE b

RECURSIVE SumAmounts(_)
\* xs.reduce((sum, e) => sum + e.amount, 0)
SumAmounts(xs) ==
    IF xs = <<>> THEN 0 ELSE xs[1].amount + SumAmounts(Tail(xs))

RECURSIVE SelectSeqP(_, _)
\* the subsequence of xs at the positions listed (in order) in keep
SelectSeqP(xs, keep) ==
    IF keep = <<>> THEN <<>> ELSE <<xs[keep[1]]>> \o SelectSeqP(xs, Tail(keep))

(***************************************************************************)
(* JavaScript numbers that come out of a division                          *)
(***************************************************************************)
Frac(n, d) == IF d < 0 THEN [num |-> 0 - n, den |-> 0 - d] ELSE [num |-> n, den |-> d]

\* a / b
JsDiv(a, b) == Frac(a, b)

\* x * k for a quotient x and an integer k > 0
JsMul(x, k) == [num |-> x.num * k, den |-> x.den]

JsZero == [num |-> 0, den |-> 1]

IsZero(x) == x.den # 0 /\ x.num = 0
\* x = n / d as numbers, for d > 0
EqualsRatio(x, n, d) == x.den # 0 /\ x.num * d = n * x.den

(***************************************************************************)
(* The calendar behind Date                                                *)
(***************************************************************************)
IsLeap(y) == (y % 4 = 0 /\ y % 100 # 0) \/ y % 400 = 0

DaysInYear(y) == IF IsLeap(y) THEN 366 ELSE 365

\* m is a month index 0..11
DaysInMonth(y, m) ==
    IF m = 1 THEN (IF IsLeap(y) THEN 29 ELSE 28)
    ELSE IF m \in {3, 5, 8, 10} THEN 30 ELSE 31

RECURSIVE DaysBeforeYear(_)
\* the day number of January 1 of year y (day 0 is 2023-01-01)
DaysBeforeYear(y) ==
    IF y = 2023 THEN 0
    ELSE IF y > 2023 THEN DaysBeforeYear(y - 1) + DaysInYear(y - 1)
    ELSE DaysBeforeYear(y + 1) - DaysInYear(y)

RECURSIVE DaysBeforeMonth(_, _)
DaysBeforeMonth(y, m) ==
    IF m = 0 THEN 0 ELSE DaysBeforeMonth(y, m - 1) + DaysInMonth(y, m - 1)

\* new Date(y, m, d): month and day overflow are carried into the year and month
MakeDay(y, m, d) ==
    LET yy == y + (m \div 12)
        mm == m % 12
    IN  DaysBeforeYear(yy) + DaysBeforeMonth(yy, mm) + d - 1

DayOf(t) == t \div TicksPerDay
TickOf(t) == t % TicksPerDay
Midnight(day) == day * TicksPerDay

RECURSIVE YearFrom(_, _)
YearFrom(y, day) ==
    IF day < DaysBeforeYear(y) THEN YearFrom(y - 1, day)
    ELSE IF day >= DaysBeforeYear(y + 1) THEN YearFrom(y + 1, day)
    ELSE y

RECURSIVE MonthFrom(_, _, _, _)
\* the month of year y that holds day, searched from month m whose first day is first
MonthFrom(y, m, first, day) ==
    IF day >= first + DaysInMonth(y, m)
    THEN MonthFrom(y, m + 1, first + DaysInMonth(y, m), day) ELSE m

getFullYear(t) == YearFrom(2023, DayOf(t))
getMonth(t) == LET y == getFullYear(t) IN MonthFrom(y, 0, DaysBeforeYear(y), DayOf(t))
getDate(t) ==
    LET y == getFullYear(t)
        m == MonthFrom(y, 0, DaysBeforeYear(y), DayOf(t))
    IN  DayOf(t) - (DaysBeforeYear(y) + DaysBeforeMonth(y, m)) + 1
\* 0 is Sunday; day 0 (2023-01-01) is a Sunday
getDay(t) == DayOf(t) % 7

\* date.setDate(n): day n of the date's month, time of day kept
setDate(t, n) == Midnight(MakeDay(getFullYear(t), getMonth(t), n)) + TickOf(t)
\* date.setHours(0, 0, 0, 0)
setHoursZero(t) == Midnight(DayOf(t))

(***************************************************************************)
(* The server: Expense collection and requests                             *)
(***************************************************************************)
NoRes == [kind |-> "none", status |-> 0]

\* no GET /api/analytics/trends request is in flight
NoTrending == [user |-> "", now |-> 0, found |-> <<>>, seen |-> {}]

\* a token of the Authorization header: not given, or a JWT that carries a
\* userId and that jwt.verify accepts (valid) or rejects (bad signature, expired)
NoToken == [given |-> FALSE, userId |-> "", valid |-> FALSE]
Jwt(u, valid) == [given |-> TRUE, userId |-> u, valid |-> valid]

\* no request yet
NoReq == [route |-> "", id |-> 0, token |-> NoToken]

\* localStorage after the first mount of the App: the save effects have
\* written the initial empty lists (JSON.stringify([]))
FirstMount == [onboardingComplete |-> FALSE,
               expenses |-> <<(<<>>)>>, savingGoals |-> <<(<<>>)>>]

\* Onboarding as it is mounted: step 1, empty fields, one empty row of fixed
\* expenses; completed lists the calls of onComplete
WizardStart ==
    [step |-> 1, age |-> "", selectedCountry |-> "", income |-> "",
     fixedExpenses |-> <<[name |-> "", amount |-> ""]>>, completed |-> <<>>]

\* AddExpenseModal as it is mounted at the instant t, not open; added lists the
\* calls of onAdd, closed counts the calls of onClose
ModalStart(t) ==
    [isOpen |-> FALSE, amount |-> "", category |-> "", customCategory |-> "",
     showCustomInput |-> FALSE, date |-> DayOf(t), added |-> <<>>, closed |-> 0]

Users == {"u1"}

\* expenseSchema: amount min 0, category within the enumeration
ValidExpense(doc) == doc.amount >= 0 /\ doc.category \in ExpenseCategories

\* Expense.find({ userId, timestamp: { $gte: from } })
FindSince(u, from) ==
    SelectSeq(db, LAMBDA e : e.userId = u /\ e.timestamp >= from)

\* Expense.find({ userId, timestamp: { $gte: from, $lt: to } })
FindBetween(u, from, to) ==
    SelectSeq(db, LAMBDA e : e.userId = u /\ e.timestamp >= from /\ e.timestamp < to)

\* POST /api/expenses
PostExpense(u, now, amount, category, description, date) ==
    /\ clock' = now
    /\ UNCHANGED clientVars
    /\ UNCHANGED budgetVars
    /\ IF amount = 0
       THEN /\ res' = [kind |-> "error", status |-> 400]
            /\ UNCHANGED <<db, nextId>>
       ELSE IF amount <= 0
       THEN /\ res' = [kind |-> "error", status |-> 400]
            /\ UNCHANGED <<db, nextId>>
       ELSE LET expense == [id |-> nextId, userId |-> u, amount |-> amount,
                            category |-> category, description |-> description,
                            date |-> date, timestamp |-> now, source |-> "manual"]
            IN  IF ValidExpense(expense)
                THEN /\ db' = Append(db, expense)
                     /\ nextId' = nextId + 1
                     /\ res' = [kind |-> "created", status |-> 201]
                ELSE /\ res' = [kind |-> "error", status |-> 500]
                     /\ UNCHANGED <<db, nextId>>

(***************************************************************************)
(* GET /api/analytics/trends                                               *)
(***************************************************************************)
\* variant: the time of day of now is kept
StartOfCurrentWeek_KeepTime(now) == setDate(now, getDate(now) - getDay(now))

StartOfCurrentWeek(now) == setHoursZero(setDate(now, getDate(now) - getDay(now)))

StartOfLastWeek(now) ==
    LET startOfCurrentWeek == StartOfCurrentWeek(now)
    IN  setDate(startOfCurrentWeek, getDate(startOfCurrentWeek) - 7)

StartOfCurrentMonth(now) == Midnight(MakeDay(getFullYear(now), getMonth(now), 1))

\* variant: the month index is clamped instead of carried into the year
StartOfLastMonth_NoCarry(now) ==
    LET m == getMonth(now)
    IN  Midnight(MakeDay(getFullYear(now), IF m = 0 THEN 11 ELSE m - 1, 1))

StartOfLastMonth(now) == Midnight(MakeDay(getFullYear(now), getMonth(now) - 1, 1))

\* variant: the quotient is taken whatever last is
Change_Unguarded(current, last) == JsMul(JsDiv(current - last, last), 100)

\* last > 0 ? ((current - last) / last) * 100 : 0
Change(current, last) ==
    IF last > 0 THEN JsMul(JsDiv(current - last, last), 100) ELSE JsZero

\* variant: the operands are swapped
Difference_Swapped(current, last) == last - current

Difference(current, last) == current - last

TrendWindow(current, last) ==
    [current |-> current, last |-> last,
     change |-> Change(current, last), difference |-> Difference(current, last)]

TrendsReport(u, now) ==
    LET startOfCurrentWeek == StartOfCurrentWeek(now)
        startOfLastWeek == StartOfLastWeek(now)
        endOfLastWeek == StartOfCurrentWeek(now)
        startOfCurrentMonth == StartOfCurrentMonth(now)
        startOfLastMonth == StartOfLastMonth(now)
        endOfLastMonth == StartOfCurrentMonth(now)
        currentWeekExpenses == FindSince(u, startOfCurrentWeek)
        lastWeekExpenses == FindBetween(u, startOfLastWeek, endOfLastWeek)
        currentMonthExpenses == FindSince(u, startOfCurrentMonth)
        lastMonthExpenses == FindBetween(u, startOfLastMonth, endOfLastMonth)
    IN  [week |-> TrendWindow(SumAmounts(currentWeekExpenses), SumAmounts(lastWeekExpenses)),
         month |-> TrendWindow(SumAmounts(currentMonthExpenses), SumAmounts(lastMonthExpenses))]

GetTrends(u, now) ==
    /\ clock' = now
    /\ res' = [kind |-> "trends", status |-> 200, user |-> u, body |-> TrendsReport(u, now)]
    /\ UNCHANGED <<db, nextId>>
    /\ UNCHANGED budgetVars
    /\ UNCHANGED clientVars

(***************************************************************************)
(* Specifications of the trend report.  A request arrives at the instant   *)
(* of the previous one or one tick later.                                  *)
(*   Spec:      from Saturday 2023-12-23 over HorizonDays days (two week   *)
(*              starts and the turn of the year), up to MaxTrendDocs docs. *)
(*   SpecMonth: from 2023-11-30 over MonthHorizonDays days (three month    *)
(*              starts), up to MaxMonthDocs docs.                          *)
(***************************************************************************)
TrendAmounts == {0, 1, 2}

ClockStart == Midnight(MakeDay(2023, 11, 23))
LastInstant == ClockStart + HorizonDays * TicksPerDay - 1

MonthClockStart == Midnight(MakeDay(2023, 10, 30))
MonthLastInstant == MonthClockStart + MonthHorizonDays * TicksPerDay - 1

Arrivals(last) == {t \in {clock, clock + 1} : t <= last}

InitAt(start) ==
    /\ db = <<>>
    /\ nextId = 1
    /\ clock = start
    /\ res = NoRes
    /\ cExpenses = <<>>
    /\ onboardingComplete = FALSE
    /\ showFirstTimeGuide = FALSE
    /\ hasSeenFirstTimeGuide = FALSE
    /\ cNow = start
    /\ budgets = <<>>
    /\ pending = {}
    /\ tz = 0
    /\ users = <<>>
    /\ registering = <<>>
    /\ trending = NoTrending
    /\ hits = 0
    /\ req = NoReq
    /\ storage = FirstMount
    /\ savingGoals = <<>>
    /\ mounts = 1
    /\ wizard = WizardStart
    /\ modal = ModalStart(start)

Init == InitAt(ClockStart)

TrendPost ==
    /\ UNCHANGED apiVars
    /\ \E u \in Users, now \in Arrivals(LastInstant), amount \in TrendAmounts :
           /\ Len(db) < MaxTrendDocs
           /\ PostExpense(u, now, amount, "Food", nextId, DayOf(now))

TrendGet ==
    /\ UNCHANGED apiVars
    /\ \E u \in Users, now \in Arrivals(LastInstant) : GetTrends(u, now)

Next == TrendPost \/ TrendGet

Spec == Init /\ [][Next]_vars

InitMonth == InitAt(MonthClockStart)

MonthPost ==
    /\ UNCHANGED apiVars
    /\ \E u \in Users, now \in Arrivals(MonthLastInstant), amount \in TrendAmounts :
           /\ Len(db) < MaxMonthDocs
           /\ PostExpense(u, now, amount, "Food", nextId, DayOf(now))

MonthGet ==
    /\ UNCHANGED apiVars
    /\ \E u \in Users, now \in Arrivals(MonthLastInstant) : GetTrends(u, now)

NextMonth == MonthPost \/ MonthGet

SpecMonth == InitMonth /\ [][NextMonth]_vars

(***************************************************************************)
(* POST /api/expenses/bulk                                                 *)
(***************************************************************************)
\* An item of the payload; timestamp -1 stands for "not given" (then the
\* schema default Date.now applies).
BulkDoc(u, now, id, item) ==
    [id |-> id, userId |-> u, amount |-> item.amount, category |-> item.category,
     description |-> item.description, date |-> item.date,
     timestamp |-> IF item.timestamp = -1 THEN now ELSE item.timestamp,
     source |-> "ocr"]

PostBulk(u, now, expenses) ==
    /\ clock' = now
    /\ UNCHANGED clientVars
    /\ UNCHANGED budgetVars
    /\ IF Len(expenses) = 0
       THEN /\ res' = [kind |-> "error", status |-> 400]
            /\ UNCHANGED <<db, nextId>>
       ELSE LET expensesWithUser ==
                    [i \in DOMAIN expenses |-> BulkDoc(u, now, nextId + i - 1, expenses[i])]
            IN  IF \A i \in DOMAIN expensesWithUser : ValidExpense(expensesWithUser[i])
                THEN /\ db' = db \o expensesWithUser
                     /\ nextId' = nextId + Len(expenses)
                     /\ res' = [kind |-> "created", status |-> 201]
                ELSE /\ res' = [kind |-> "error", status |-> 500]
                     /\ UNCHANGED <<db, nextId>>

(***************************************************************************)
(* GET /api/analytics/categories                                           *)
(***************************************************************************)
\* A date range of the query string; NoRange: startDate or endDate missing.
NoRange == [given |-> FALSE, startDate |-> 0, endDate |-> 0]
Range(a, b) == [given |-> TRUE, startDate |-> a, endDate |-> b]

\* Expense.find({ userId, date: { $gte: startDate, $lte: endDate } })
FindByDate(u, range) ==
    SelectSeq(db, LAMBDA e :
        /\ e.userId = u
        /\ range.given => (e.date >= range.startDate /\ e.date <= range.endDate))

\* the position of the entry of category c in acc, 0 when acc[c] is undefined
EntryOf(acc, c) ==
    IF \E i \in DOMAIN acc : acc[i].category = c
    THEN CHOOSE i \in DOMAIN acc : acc[i].category = c
    ELSE 0

Transaction(exp) == [amount |-> exp.amount, description |-> exp.description, date |-> exp.date]

\* variant: the running total is overwritten instead of added to
AddToEntry_Overwrite(entry, exp) ==
    [entry EXCEPT !.total = exp.amount,
                  !.count = @ + 1,
                  !.transactions = Append(@, Transaction(exp))]

\* acc[exp.category].total += exp.amount; .count += 1; .transactions.push(...)
AddToEntry(entry, exp) ==
    [entry EXCEPT !.total = @ + exp.amount,
                  !.count = @ + 1,
                  !.transactions = Append(@, Transaction(exp))]

RECURSIVE GroupByCategory(_, _)
\* expenses.reduce((acc, exp) => ..., {}): the entries of acc in insertion order
GroupByCategory(expenses, acc) ==
    IF expenses = <<>> THEN acc
    ELSE LET exp == Head(expenses)
             fresh == [category |-> exp.category, total |-> 0, count |-> 0,
                       transactions |-> <<>>]
             acc1 == IF EntryOf(acc, exp.category) = 0 THEN Append(acc, fresh) ELSE acc
             k == EntryOf(acc1, exp.category)
         IN  GroupByCategory(Tail(expenses), [acc1 EXCEPT ![k] = AddToEntry(@, exp)])

RECURSIVE InsertDesc(_, _, _)
\* the positions in order with position i put after every position whose key
\* is not smaller than keys[i]
InsertDesc(i, order, keys) ==
    IF order = <<>> THEN <<i>>
    ELSE IF keys[Head(order)] >= keys[i]
         THEN <<Head(order)>> \o InsertDesc(i, Tail(order), keys)
         ELSE <<i>> \o order

RECURSIVE InsertDescFirst(_, _, _)
\* variant: position i is put before the positions of equal key
InsertDescFirst(i, order, keys) ==
    IF order = <<>> THEN <<i>>
    ELSE IF keys[Head(order)] > keys[i]
         THEN <<Head(order)>> \o InsertDescFirst(i, Tail(order), keys)
         ELSE <<i>> \o order

RECURSIVE StableOrderDesc(_, _)
\* the first k positions of keys, by key descending, equal keys in input order
StableOrderDesc(k, keys) ==
    IF k = 0 THEN <<>> ELSE InsertDesc(k, StableOrderDesc(k - 1, keys), keys)

RECURSIVE ReversedTiesOrderDesc(_, _)
ReversedTiesOrderDesc(k, keys) ==
    IF k = 0 THEN <<>> ELSE InsertDescFirst(k, ReversedTiesOrderDesc(k - 1, keys), keys)

\* xs.sort((a, b) => b.amount - a.amount)
SortByAmountDesc(xs) ==
    SelectSeqP(xs, StableOrderDesc(Len(xs), [i \in DOMAIN xs |-> xs[i].amount]))

\* variant: no sort before the slice
TopExpenses_Unsorted(transactions) ==
    SubSeq(transactions, 1, Min(TopN, Len(transactions)))

\* variant: an unstable sort that reverses equal amounts
TopExpenses_Unstable(transactions) ==
    SubSeq(SelectSeqP(transactions,
                      ReversedTiesOrderDesc(Len(transactions),
                                            [i \in DOMAIN transactions |-> transactions[i].amount])),
           1, Min(TopN, Len(transactions)))

\* data.transactions.sort((a, b) => b.amount - a.amount).slice(0, 5)
TopExpenses(transactions) ==
    SubSeq(SortByAmountDesc(transactions), 1, Min(TopN, Len(transactions)))

\* variant: the quotient is taken whatever totalSpent is
CategoryPercentage_Unguarded(total, totalSpent) == JsMul(JsDiv(total, totalSpent), 100)

\* totalSpent > 0 ? (data.total / totalSpent) * 100 : 0
CategoryPercentage(total, totalSpent) ==
    IF totalSpent > 0 THEN JsMul(JsDiv(total, totalSpent), 100) ELSE JsZero

\* data.count > 0 ? data.total / data.count : 0
AvgPerTransaction(total, count) ==
    IF count > 0 THEN JsDiv(total, count) ELSE JsZero

\* variant: the categories are left in insertion order
SortByTotalDesc_Unsorted(categories) == categories

\* categories.sort((a, b) => b.total - a.total)
SortByTotalDesc(categories) ==
    SelectSeqP(categories,
               StableOrderDesc(Len(categories), [i \in DOMAIN categories |-> categories[i].total]))

CategoryReport(u, range) ==
    LET expenses == FindByDate(u, range)
        categoryData == GroupByCategory(expenses, <<>>)
        totalSpent == SumAmounts(expenses)
        categories ==
            [i \in DOMAIN categoryData |->
                [category |-> categoryData[i].category,
                 total |-> categoryData[i].total,
                 count |-> categoryData[i].count,
                 percentage |-> CategoryPercentage(categoryData[i].total, totalSpent),
                 avgPerTransaction |->
                     AvgPerTransaction(categoryData[i].total, categoryData[i].count),
                 topExpenses |-> TopExpenses(categoryData[i].transactions)]]
    IN  [categories |-> SortByTotalDesc(categories),
         totalSpent |-> totalSpent,
         totalTransactions |-> Len(expenses)]

GetCategories(u, now, range) ==
    /\ clock' = now
    /\ res' = [kind |-> "categories", status |-> 200, user |-> u, range |-> range,
               body |-> CategoryReport(u, range)]
    /\ UNCHANGED <<db, nextId>>
    /\ UNCHANGED budgetVars
    /\ UNCHANGED clientVars

(***************************************************************************)
(* Specification of the category report: documents of amount 0 or 1 in two *)
(* categories are bulk-inserted, up to MaxCatDocs of them (an item of      *)
(* amount -1 fails validation), and the report is requested with and       *)
(* without a date range.                                                   *)
(***************************************************************************)
CatAmounts == {-1, 0, 1}
CatCategories == {"Food", "Transport"}

CatRanges(today) == {NoRange, Range(today, today), Range(today + 1, today + 1)}

CatPayloads(today) ==
    {<<>>} \cup
    {<<[amount |-> a, category |-> c, description |-> nextId, date |-> today,
        timestamp |-> -1]>> : a \in CatAmounts, c \in CatCategories}

CatBulk ==
    /\ UNCHANGED apiVars
    /\ \E u \in Users, expenses \in CatPayloads(DayOf(clock)) :
           /\ Len(db) + Len(expenses) <= MaxCatDocs
           /\ PostBulk(u, clock, expenses)

CatGet ==
    /\ UNCHANGED apiVars
    /\ \E u \in Users, range \in CatRanges(DayOf(clock)) : GetCategories(u, clock, range)

NextCategories == CatBulk \/ CatGet

SpecCategories == Init /\ [][NextCategories]_vars

(***************************************************************************)
(* The client: App.tsx, AddExpenseModal.tsx, Calendar.tsx                  *)
(*                                                                         *)
(* A date string "YYYY-MM-DD" is the number of its day; new Date(string)   *)
(* is the UTC midnight of that day and toISOString().split('T')[0] the UTC *)
(* day of an instant.  The client's instants are UTC ticks; getDate and    *)
(* setDate work on the local time, which is tz ticks ahead of UTC.         *)
(***************************************************************************)
\* parseFloat of the text of an <input type="number">; -9 stands for NaN
ParseFloat(text) ==
    CASE text = "0" -> 0
      [] text = "1" -> 1
      [] text = "2" -> 2
      [] text = "-1" -> -1
      [] OTHER -> -9

IsNaNAmount(x) == x = -9

\* the amount that JSON.parse reads where JSON.stringify wrote null
JsonNull == -8

\* date.toISOString().split('T')[0]
IsoDate(t) == DayOf(t)

\* new Date(dateString)
ParseDate(date) == Midnight(date)

\* d.getDate() of the instant t in the client's time zone
LocalGetDate(t) == getDate(t + tz)

\* d.setDate(n) of the instant t in the client's time zone
LocalSetDate(t, n) == setDate(t + tz, n) - tz

\* d.getDay() of the instant t in the client's time zone
LocalGetDay(t) == getDay(t + tz)

\* JSON.parse(JSON.stringify(list)) of a list of expenses: a NaN amount is
\* written as null, every other field is read back as it was
JsonExpenses(list) ==
    [i \in DOMAIN list |->
        [list[i] EXCEPT !.amount = IF IsNaNAmount(@) THEN JsonNull ELSE @]]

\* the effect on [expenses]: after a render that changed the expenses state,
\* localStorage.setItem('expenses', JSON.stringify(expenses))
SaveExpenses == storage' = [storage EXCEPT !.expenses = <<JsonExpenses(cExpenses')>>]

\* App.handleOnboardingComplete
HandleOnboardingComplete ==
    /\ ~onboardingComplete
    /\ onboardingComplete' = TRUE
    /\ storage' = [storage EXCEPT !.onboardingComplete = TRUE]
    /\ UNCHANGED <<cExpenses, showFirstTimeGuide, hasSeenFirstTimeGuide, cNow, tz,
                   savingGoals, uiVars>>
    /\ UNCHANGED serverVars

\* variant: the key hasSeenFirstTimeGuide is not written
HandleAddExpense_NoFlag(expense) ==
    LET newExpense == [id |-> cNow, amount |-> expense.amount,
                       category |-> expense.category, date |-> expense.date]
    IN  /\ cExpenses' = Append(cExpenses, newExpense)
        /\ showFirstTimeGuide' = FALSE
        /\ SaveExpenses
        /\ UNCHANGED <<onboardingComplete, hasSeenFirstTimeGuide, cNow, tz, savingGoals, uiVars>>
        /\ UNCHANGED serverVars

\* App.handleAddExpense
HandleAddExpense(expense) ==
    LET newExpense == [id |-> cNow, amount |-> expense.amount,
                       category |-> expense.category, date |-> expense.date]
    IN  /\ cExpenses' = Append(cExpenses, newExpense)
        /\ showFirstTimeGuide' = FALSE
        /\ hasSeenFirstTimeGuide' = TRUE
        /\ SaveExpenses
        /\ UNCHANGED <<onboardingComplete, cNow, tz, savingGoals, uiVars>>
        /\ UNCHANGED serverVars

\* AddExpenseModal.handleSubmit with the form fields as they are at the click
HandleSubmit(amount, category, customCategory, date) ==
    /\ onboardingComplete
    /\ IF amount = "" \/ (category = "" /\ customCategory = "")
       THEN UNCHANGED vars
       ELSE HandleAddExpense([amount |-> ParseFloat(amount),
                              category |-> IF customCategory # "" THEN customCategory
                                           ELSE category,
                              date |-> date])

\* variant: the updated expense is moved to the end of the list
HandleEditExpense_MovesLast(id, updatedExpense) ==
    /\ cExpenses' =
           SelectSeq(cExpenses, LAMBDA e : e.id # id)
           \o [i \in 1..Len(SelectSeq(cExpenses, LAMBDA e : e.id = id)) |->
                  [id |-> id, amount |-> updatedExpense.amount,
                   category |-> updatedExpense.category, date |-> updatedExpense.date]]
    /\ SaveExpenses
    /\ UNCHANGED <<onboardingComplete, showFirstTimeGuide, hasSeenFirstTimeGuide, cNow, tz,
                   savingGoals, uiVars>>
    /\ UNCHANGED serverVars

\* App.handleEditExpense
HandleEditExpense(id, updatedExpense) ==
    /\ cExpenses' = [i \in DOMAIN cExpenses |->
                        IF cExpenses[i].id = id
                        THEN [id |-> id, amount |-> updatedExpense.amount,
                              category |-> updatedExpense.category,
                              date |-> updatedExpense.date]
                        ELSE cExpenses[i]]
    /\ SaveExpenses
    /\ UNCHANGED <<onboardingComplete, showFirstTimeGuide, hasSeenFirstTimeGuide, cNow, tz,
                   savingGoals, uiVars>>
    /\ UNCHANGED serverVars

\* Calendar: Edit on expense i, the amount field set to the text amount
\* (parseFloat(value) || 0), the category field to category, then Save
CalendarSave(i, amount, category) ==
    /\ onboardingComplete
    /\ i \in DOMAIN cExpenses
    /\ LET parsed == ParseFloat(amount)
           editingExpense == [cExpenses[i] EXCEPT
                                 !.amount = IF IsNaNAmount(parsed) \/ parsed = 0 THEN 0 ELSE parsed,
                                 !.category = category]
       IN  HandleEditExpense(editingExpense.id,
                             [amount |-> editingExpense.amount,
                              category |-> editingExpense.category,
                              date |-> editingExpense.date])

\* App.handleDeleteExpense, from the Calendar's delete button of expense i
HandleDeleteExpense(i) ==
    /\ onboardingComplete
    /\ i \in DOMAIN cExpenses
    /\ cExpenses' = SelectSeq(cExpenses, LAMBDA e : e.id # cExpenses[i].id)
    /\ SaveExpenses
    /\ UNCHANGED <<onboardingComplete, showFirstTimeGuide, hasSeenFirstTimeGuide, cNow, tz,
                   savingGoals, uiVars>>
    /\ UNCHANGED serverVars

\* time passes on the client
ClientTick(last) ==
    /\ cNow < last
    /\ cNow' = cNow + 1
    /\ UNCHANGED <<cExpenses, onboardingComplete, showFirstTimeGuide, hasSeenFirstTimeGuide, tz,
                   storage, savingGoals, uiVars>>
    /\ UNCHANGED serverVars

(***************************************************************************)
(* App.tsx: the dashboard's spending trend                                 *)
(***************************************************************************)
\* Array.from({ length: 7 }, (_, i) => ...): entry i + 1 of the model is entry i
Last7Days(now) ==
    [i \in 1..7 |-> IsoDate(LocalSetDate(now, LocalGetDate(now) - (6 - (i - 1))))]

\* the date of an entry is the weekday that toLocaleDateString shows
DailySpending(xs, now) ==
    [i \in 1..7 |->
        [date |-> LocalGetDay(ParseDate(Last7Days(now)[i])),
         amount |-> SumAmounts(SelectSeq(xs, LAMBDA e : e.date = Last7Days(now)[i]))]]

ThisWeekTotal(xs, now) ==
    SumAmounts(DailySpending(xs, now))

LastWeekTotal(xs, now) ==
    LET weekAgo == LocalSetDate(now, LocalGetDate(now) - 7)
        twoWeeksAgo == LocalSetDate(now, LocalGetDate(now) - 14)
    IN  SumAmounts(SelectSeq(xs, LAMBDA e :
            ParseDate(e.date) >= twoWeeksAgo /\ ParseDate(e.date) < weekAgo))

\* variant: the quotient is taken whatever lastWeekTotal is
PercentChangeOf_Unguarded(thisWeekTotal, lastWeekTotal) ==
    JsMul(JsDiv(thisWeekTotal - lastWeekTotal, lastWeekTotal), 100)

\* lastWeekTotal > 0 ? ((thisWeekTotal - lastWeekTotal) / lastWeekTotal) * 100 : 0
PercentChangeOf(thisWeekTotal, lastWeekTotal) ==
    IF lastWeekTotal > 0
    THEN JsMul(JsDiv(thisWeekTotal - lastWeekTotal, lastWeekTotal), 100)
    ELSE JsZero

percentChange == PercentChangeOf(ThisWeekTotal(cExpenses, cNow), LastWeekTotal(cExpenses, cNow))

(***************************************************************************)
(* SpendingTrendsModal                                                     *)
(***************************************************************************)
\* The accumulator of the reduce is the literal {}: the key "__proto__" is the
\* accessor inherited from Object.prototype.  Reading it gives an object (truthy),
\* and assigning to it the string that += makes of it does nothing.  (Other
\* inherited names, such as "constructor", are not among the inputs of the model.)
IsInheritedAccessor(c) == c = "__proto__"

RECURSIVE CategorySpending(_, _)
\* expenses.reduce((acc, expense) => ..., {}): the own entries of acc in insertion order
CategorySpending(xs, acc) ==
    IF xs = <<>> THEN acc
    ELSE LET expense == Head(xs)
             k == EntryOf(acc, expense.category)
         IN  IF IsInheritedAccessor(expense.category)
             THEN CategorySpending(Tail(xs), acc)
             ELSE IF k = 0
             THEN CategorySpending(Tail(xs),
                      Append(acc, [category |-> expense.category, amount |-> expense.amount]))
             ELSE \* an entry that is 0 is set to 0 again before the +=
                  CategorySpending(Tail(xs), [acc EXCEPT ![k].amount = @ + expense.amount])

\* Object.entries(categorySpending).map(...).sort((a, b) => b.amount - a.amount)
categoryData ==
    LET entries == CategorySpending(cExpenses, <<>>)
    IN  SelectSeqP(entries,
                   StableOrderDesc(Len(entries), [i \in DOMAIN entries |-> entries[i].amount]))

totalSpent == SumAmounts(cExpenses)

\* the quotient of non-negative n by positive d, rounded half up
RoundDiv(n, d) == (2 * n + d) \div (2 * d)

\* x.toFixed(1): the text, as its kind and, for digits, the tenths it shows
ToFixed1(x) ==
    IF x.den = 0
    THEN [kind |-> IF x.num = 0 THEN "NaN" ELSE IF x.num > 0 THEN "Infinity" ELSE "-Infinity",
          tenths |-> 0]
    ELSE [kind |-> "digits",
          tenths |-> IF x.num >= 0 THEN RoundDiv(x.num * 10, x.den)
                     ELSE 0 - RoundDiv((0 - x.num) * 10, x.den)]

\* SpendingTrendsModal.dailyData; the date of an entry is the month and day that
\* toLocaleDateString shows, kept as the day number in the client's time zone
dailyData ==
    [i \in 1..7 |->
        [date |-> DayOf(ParseDate(Last7Days(cNow)[i]) + tz),
         amount |-> SumAmounts(SelectSeq(cExpenses, LAMBDA e : e.date = Last7Days(cNow)[i]))]]

pieData ==
    [i \in DOMAIN categoryData |->
        [category |-> categoryData[i].category,
         amount |-> categoryData[i].amount,
         percentage |-> ToFixed1(JsMul(JsDiv(categoryData[i].amount, totalSpent), 100))]]

(***************************************************************************)
(* Specifications of the client.                                           *)
(*   SpecModal: expenses of today in several categories (the trends modal) *)
(*   SpecDash:  expenses of one category dated up to DashDaysBack days     *)
(*              back (the dashboard)                                       *)
(***************************************************************************)
ModalAmountTexts == {"", "0", "1", "-1"}
ModalCategories == {"", "Transport"}
ModalCustomCategories == {"", "Pets", "__proto__"}
ModalLast == ClockStart + 1

ModalOnboard == HandleOnboardingComplete

ModalSubmit ==
    \E amount \in ModalAmountTexts, category \in ModalCategories,
       customCategory \in ModalCustomCategories :
        /\ Len(cExpenses) < MaxModalExpenses
        /\ HandleSubmit(amount, category, customCategory, IsoDate(cNow))

ModalSave ==
    \E i \in DOMAIN cExpenses, amount \in ModalAmountTexts,
       category \in (ModalCategories \cup ModalCustomCategories) :
        CalendarSave(i, amount, category)

ModalDelete == \E i \in DOMAIN cExpenses : HandleDeleteExpense(i)

ModalTick == ClientTick(ModalLast)

NextModal == ModalOnboard \/ ModalSubmit \/ ModalSave \/ ModalDelete \/ ModalTick

SpecModal == Init /\ [][NextModal]_vars

DashAmountTexts == {"", "-1", "1", "2"}
DashLast == ClockStart + 1
DashDates == (DayOf(cNow) - DashDaysBack)..DayOf(cNow)

DashOnboard == HandleOnboardingComplete

DashSubmit ==
    \E amount \in DashAmountTexts, date \in DashDates :
        /\ Len(cExpenses) < MaxDashExpenses
        /\ HandleSubmit(amount, "Transport", "", date)

DashSave ==
    \E i \in DOMAIN cExpenses, amount \in DashAmountTexts :
        CalendarSave(i, amount, cExpenses[i].category)

DashDelete == \E i \in DOMAIN cExpenses : HandleDeleteExpense(i)

DashTick == ClientTick(DashLast)

NextDash == DashOnboard \/ DashSubmit \/ DashSave \/ DashDelete \/ DashTick

SpecDash == Init /\ [][NextDash]_vars

(***************************************************************************)
(* The server and the client share no state, so the reachable states of    *)
(* the two together are the pairs of reachable states of each.  SpecChange *)
(* runs the trend report of Spec while the client is at rest and the       *)
(* dashboard of SpecDash while the server is at rest.                      *)
(***************************************************************************)
ServerAtRest ==
    /\ db = <<>> /\ nextId = 1 /\ clock = ClockStart /\ res = NoRes
    /\ budgets = <<>> /\ pending = {}
    /\ users = <<>> /\ registering = <<>> /\ trending = NoTrending /\ hits = 0
    /\ req = NoReq

ClientAtRest ==
    /\ cExpenses = <<>>
    /\ ~onboardingComplete
    /\ ~showFirstTimeGuide
    /\ ~hasSeenFirstTimeGuide
    /\ cNow = ClockStart
    /\ tz = 0
    /\ storage = FirstMount
    /\ savingGoals = <<>>
    /\ mounts = 1
    /\ wizard = WizardStart
    /\ modal = ModalStart(ClockStart)

ChangeServer == ClientAtRest /\ Next

ChangeClient == ServerAtRest /\ NextDash

NextChange == ChangeServer \/ ChangeClient

SpecChange == Init /\ [][NextChange]_vars

(***************************************************************************)
(* Properties of the trend report                                          *)
(***************************************************************************)
SumWhere(u, from, to) ==
    SumAmounts(SelectSeq(db, LAMBDA e : e.userId = u /\ from <= e.timestamp /\ e.timestamp < to))

SumFrom(u, from) ==
    SumAmounts(SelectSeq(db, LAMBDA e : e.userId = u /\ from <= e.timestamp))

\* midnight of the most recent day of index 0 (Sunday) at or before t
WeekStartOf(t) ==
    Midnight(CHOOSE d \in (DayOf(t) - 6)..DayOf(t) : d % 7 = 0)

\* midnight of day 1 of the calendar month of t
MonthStartOf(t) ==
    Midnight(CHOOSE d \in (DayOf(t) - 30)..DayOf(t) :
                 /\ getDate(Midnight(d)) = 1
                 /\ \A e \in (d + 1)..DayOf(t) : getDate(Midnight(e)) # 1)

OneWeek == 7 * TicksPerDay

TrendsAnswered == res.kind = "trends"

\* C1: whenever the prior-period total is 0 the reported change is 0, for the
\* week and the month window and whatever the current total, and the request is
\* answered without error; the dashboard's percentChange obeys the same rule.
C1_ZeroPriorZeroChange ==
    /\ TrendsAnswered =>
         /\ res.status = 200
         /\ \A w \in {res.body.week, res.body.month} : w.last = 0 => IsZero(w.change)
    /\ LastWeekTotal(cExpenses, cNow) = 0 => IsZero(percentChange)

C1_Witness ==
    /\ TrendsAnswered
    /\ res.body.week.last = 0
    /\ res.body.week.current = 2
    /\ IsZero(res.body.week.change)
    /\ res.body.month.last = 0
    /\ res.body.month.current = 2
    /\ IsZero(res.body.month.change)

\* the dashboard's case of C1: nothing in the prior week, spending in this one
C1_DashboardCase ==
    /\ onboardingComplete
    /\ LastWeekTotal(cExpenses, cNow) = 0
    /\ ThisWeekTotal(cExpenses, cNow) = 2
    /\ IsZero(percentChange)

\* C2: in the trend report, for the week and the month window, difference =
\* current - last always, and when last > 0 change = (current - last) / last * 100.
C2_DifferenceAndChange ==
    TrendsAnswered =>
        \A w \in {res.body.week, res.body.month} :
            /\ w.difference = w.current - w.last
            /\ w.last > 0 => EqualsRatio(w.change, (w.current - w.last) * 100, w.last)

C2_Witness ==
    /\ TrendsAnswered
    /\ res.body.week.last = 1
    /\ res.body.week.current = 2
    /\ res.body.week.difference = 1
    /\ EqualsRatio(res.body.week.change, 100, 1)

\* C3: with W the midnight of the most recent Sunday at or before now, the
\* current-week total is the sum of the expenses stamped at or after W and the
\* prior-week total the sum of those stamped in [W - 7 days, W); no expense is in both.
C3_WeekWindows ==
    TrendsAnswered =>
        LET W == WeekStartOf(clock)
        IN  /\ res.body.week.current = SumFrom(res.user, W)
            /\ res.body.week.last = SumWhere(res.user, W - OneWeek, W)
            /\ res.body.week.current + res.body.week.last = SumFrom(res.user, W - OneWeek)

C3_Witness ==
    /\ TrendsAnswered
    /\ Len(db) = 2
    /\ db[1].timestamp = WeekStartOf(clock) - 1
    /\ db[2].timestamp = WeekStartOf(clock)
    /\ clock > WeekStartOf(clock)
    /\ res.body.week.last = db[1].amount
    /\ res.body.week.current = db[2].amount

\* C4: the current-month total is the sum of the expenses stamped at or after
\* day 1, midnight, of now's calendar month, and the prior-month total the sum of
\* those stamped in the preceding calendar month, in January too; no expense is
\* in both.
C4_MonthWindows ==
    TrendsAnswered =>
        LET M == MonthStartOf(clock)
            P == MonthStartOf(M - 1)
        IN  /\ res.body.month.current = SumFrom(res.user, M)
            /\ res.body.month.last = SumWhere(res.user, P, M)
            /\ res.body.month.current + res.body.month.last = SumFrom(res.user, P)

C4_Witness ==
    /\ TrendsAnswered
    /\ getMonth(clock) = 0
    /\ Len(db) = 1
    /\ getMonth(db[1].timestamp) = 11
    /\ getFullYear(db[1].timestamp) = getFullYear(clock) - 1
    /\ res.body.month.last = db[1].amount
    /\ res.body.month.current = 0

(***************************************************************************)
(* Properties of the category report                                       *)
(***************************************************************************)
CategoriesAnswered == res.kind = "categories"

\* the documents the report is about: the requester's, within the range if given
Reported ==
    {i \in DOMAIN db :
        /\ db[i].userId = res.user
        /\ res.range.given => (res.range.startDate <= db[i].date /\ db[i].date <= res.range.endDate)}

ReportedIn(c) == {i \in Reported : db[i].category = c}

RECURSIVE SumOfSet(_, _)
\* the sum of f[i] over the finite set S
SumOfSet(f, S) ==
    IF S = {} THEN 0
    ELSE LET x == CHOOSE x \in S : TRUE IN f[x] + SumOfSet(f, S \ {x})

DbAmounts == [i \in DOMAIN db |-> db[i].amount]

C6_Percentage ==
    CategoriesAnswered =>
        \A k \in DOMAIN res.body.categories :
            LET c == res.body.categories[k]
            IN  IF res.body.totalSpent > 0
                THEN EqualsRatio(c.percentage, c.total * 100, res.body.totalSpent)
                ELSE IsZero(c.percentage)

\* Food 4 of 5 and Transport 1 of 5: 80 and 20 per cent
C6_Witness ==
    /\ CategoriesAnswered
    /\ Len(res.body.categories) = 2
    /\ res.body.categories[1].category = "Food"
    /\ res.body.categories[1].total = 4
    /\ EqualsRatio(res.body.categories[1].percentage, 80, 1)
    /\ res.body.categories[2].category = "Transport"
    /\ res.body.categories[2].total = 1
    /\ EqualsRatio(res.body.categories[2].percentage, 20, 1)
    /\ res.body.totalSpent = 5

\* the reported transactions of category c, in the order of the collection
TransactionsOf(c) ==
    LET all == SelectSeq(db, LAMBDA e :
                   /\ e.userId = res.user
                   /\ e.category = c
                   /\ res.range.given =>
                        (res.range.startDate <= e.date /\ e.date <= res.range.endDate))
    IN  [i \in DOMAIN all |-> Transaction(all[i])]

\* C8: topExpenses has length min(5, count), is sorted by amount descending and
\* holds the highest amounts of its category.
C8_TopExpenses ==
    CategoriesAnswered =>
        \A k \in DOMAIN res.body.categories :
            LET c == res.body.categories[k]
                top == c.topExpenses
                all == TransactionsOf(c.category)
            IN  /\ Len(top) = Min(TopN, c.count)
                /\ \A i \in DOMAIN top : \A j \in DOMAIN top :
                     i < j => top[i].amount >= top[j].amount
                /\ \E pos \in [DOMAIN top -> DOMAIN all] :
                     /\ \A i \in DOMAIN top : all[pos[i]] = top[i]
                     /\ \A i \in DOMAIN top : \A j \in DOMAIN top : i # j => pos[i] # pos[j]
                     /\ \A x \in DOMAIN all :
                          (\A i \in DOMAIN top : pos[i] # x) =>
                              \A i \in DOMAIN top : all[x].amount <= top[i].amount

C8_Witness ==
    /\ CategoriesAnswered
    /\ \E k \in DOMAIN res.body.categories :
         LET c == res.body.categories[k]
         IN  /\ c.count = 6
             /\ Len(c.topExpenses) = 5
             /\ c.topExpenses[1].amount = 1
             /\ c.topExpenses[5].amount = 0
             /\ TransactionsOf(c.category)[1].amount = 0
             /\ TransactionsOf(c.category)[6].amount = 1

\* the position in the collection's order of the transaction t of category c
\* (descriptions are distinct in this model)
PositionOf(c, t) == CHOOSE x \in DOMAIN TransactionsOf(c) : TransactionsOf(c)[x] = t

\* C9: transactions of equal amount keep their input order inside topExpenses,
\* and those cut off come after those kept.
C9_StableTies ==
    CategoriesAnswered =>
        \A k \in DOMAIN res.body.categories :
            LET c == res.body.categories[k]
                top == c.topExpenses
                all == TransactionsOf(c.category)
            IN  /\ \A i \in DOMAIN top : \E x \in DOMAIN all : all[x] = top[i]
                /\ \A i \in DOMAIN top : \A j \in DOMAIN top :
                     (i < j /\ top[i].amount = top[j].amount) =>
                         PositionOf(c.category, top[i]) < PositionOf(c.category, top[j])
                /\ \A x \in DOMAIN all :
                     (\A i \in DOMAIN top : top[i] # all[x]) =>
                         \A i \in DOMAIN top :
                             top[i].amount = all[x].amount =>
                                 PositionOf(c.category, top[i]) < x

\* six transactions of one amount: the first five are kept, in input order
C9_Witness ==
    /\ CategoriesAnswered
    /\ \E k \in DOMAIN res.body.categories :
         LET c == res.body.categories[k]
             all == TransactionsOf(c.category)
         IN  /\ c.count = 6
             /\ \A x \in DOMAIN all : all[x].amount = 1
             /\ c.topExpenses = SubSeq(all, 1, 5)

\* The server part of C10: the categories of the report are sorted by total
\* descending, one entry per category of the reported documents.
C10_ServerSorted ==
    CategoriesAnswered =>
        LET cats == res.body.categories
        IN  /\ \A i \in DOMAIN cats : \A j \in DOMAIN cats :
                 i < j => cats[i].total >= cats[j].total
            /\ \A i \in DOMAIN cats : \A j \in DOMAIN cats :
                 i # j => cats[i].category # cats[j].category
            /\ {cats[i].category : i \in DOMAIN cats} = {db[i].category : i \in Reported}

(***************************************************************************)
(* Properties of the client's trends modal                                 *)
(***************************************************************************)
ZeroPercent == [kind |-> "digits", tenths |-> 0]

\* C7: in the trends modal every category's percentage is the fallback 0, not
\* NaN or Infinity, whenever the grand total is 0.
C7_ZeroTotalFallback ==
    (onboardingComplete /\ totalSpent = 0) =>
        \A i \in DOMAIN pieData : pieData[i].percentage = ZeroPercent

\* C10: the categories are sorted by total descending, on the server report and
\* in the modal's categoryData, with one entry per distinct category string.
C10_SortedOnePerCategory ==
    /\ C10_ServerSorted
    /\ \A i \in DOMAIN categoryData : \A j \in DOMAIN categoryData :
         i < j => categoryData[i].amount >= categoryData[j].amount
    /\ \A i \in DOMAIN categoryData : \A j \in DOMAIN categoryData :
         i # j => categoryData[i].category # categoryData[j].category
    /\ {categoryData[i].category : i \in DOMAIN categoryData}
         = {cExpenses[i].category : i \in DOMAIN cExpenses}

\* what the modal does keep of C10: sorted, and one entry per distinct category
\* string other than "__proto__"
ModalSortedOwnCategories ==
    /\ \A i \in DOMAIN categoryData : \A j \in DOMAIN categoryData :
         i < j => categoryData[i].amount >= categoryData[j].amount
    /\ \A i \in DOMAIN categoryData : \A j \in DOMAIN categoryData :
         i # j => categoryData[i].category # categoryData[j].category
    /\ {categoryData[i].category : i \in DOMAIN categoryData}
         = {cExpenses[i].category : i \in DOMAIN cExpenses} \ {"__proto__"}

(***************************************************************************)
(* GET /api/expenses                                                       *)
(*                                                                         *)
(* A date string "YYYY-MM-DD" is the number of its day, so the store's     *)
(* string comparison of dates is the comparison of day numbers.  The empty *)
(* category "" stands for a query without category.                        *)
(***************************************************************************)
\* variant: the end of the range is excluded
ExpenseQuery_ExclusiveEnd(u, range, category) ==
    SelectSeq(db, LAMBDA e :
        /\ e.userId = u
        /\ range.given => (e.date >= range.startDate /\ e.date < range.endDate)
        /\ category # "" => e.category = category)

\* Expense.find(query): userId, date within the range if both ends are given,
\* category if given
ExpenseQuery(u, range, category) ==
    SelectSeq(db, LAMBDA e :
        /\ e.userId = u
        /\ range.given => (e.date >= range.startDate /\ e.date <= range.endDate)
        /\ category # "" => e.category = category)

\* .sort({ timestamp: -1 }); documents of one timestamp stay in natural order
SortByTimestampDesc(xs) ==
    SelectSeqP(xs, StableOrderDesc(Len(xs), [i \in DOMAIN xs |-> xs[i].timestamp]))

GetExpenses(u, now, range, category) ==
    /\ clock' = now
    /\ res' = [kind |-> "expenses", status |-> 200, user |-> u, range |-> range,
               category |-> category,
               body |-> SortByTimestampDesc(ExpenseQuery(u, range, category))]
    /\ UNCHANGED <<db, nextId>>
    /\ UNCHANGED budgetVars
    /\ UNCHANGED clientVars

(***************************************************************************)
(* Specification of the date filter: two users bulk-insert documents dated *)
(* on three consecutive days, and list their expenses and request the      *)
(* category report with every range over those days, one end missing, or   *)
(* no range.                                                               *)
(***************************************************************************)
MaxRangeDocs == 3
RangeUsers == {"u1", "u2"}
RangeDays == DayOf(ClockStart)..(DayOf(ClockStart) + 2)
RangeQueries == {NoRange} \cup {Range(a, b) : a \in RangeDays, b \in RangeDays}
RangeCategories == {"", "Food"}

RangeBulk ==
    /\ UNCHANGED apiVars
    /\ \E u \in RangeUsers, date \in RangeDays, c \in CatCategories :
           /\ Len(db) < MaxRangeDocs
           /\ PostBulk(u, clock, <<[amount |-> 1, category |-> c, description |-> nextId,
                                    date |-> date, timestamp |-> -1]>>)

RangeList ==
    /\ UNCHANGED apiVars
    /\ \E u \in RangeUsers, range \in RangeQueries, category \in RangeCategories :
           GetExpenses(u, clock, range, category)

RangeReport ==
    /\ UNCHANGED apiVars
    /\ \E u \in RangeUsers, range \in RangeQueries : GetCategories(u, clock, range)

NextRange == RangeBulk \/ RangeList \/ RangeReport

SpecRange == Init /\ [][NextRange]_vars

(***************************************************************************)
(* Properties of the date filter                                           *)
(***************************************************************************)
\* the documents of the requester dated within the range of the last request
InRange ==
    {i \in DOMAIN db :
        /\ db[i].userId = res.user
        /\ res.range.startDate <= db[i].date
        /\ db[i].date <= res.range.endDate}

\* C11: with a date range, the expense list and the category report cover
\* exactly the requester's expenses with startDate <= date <= endDate, both
\* ends included (the list further narrowed by the category, if one is asked).
C11_InclusiveRange ==
    /\ (res.kind = "expenses" /\ res.range.given) =>
         /\ {res.body[k].id : k \in DOMAIN res.body}
              = {db[i].id : i \in {j \in InRange :
                                      res.category # "" => db[j].category = res.category}}
         /\ Cardinality({res.body[k].id : k \in DOMAIN res.body}) = Len(res.body)
    /\ (res.kind = "categories" /\ res.range.given) =>
         /\ res.body.totalTransactions = Cardinality(InRange)
         /\ res.body.totalSpent = SumOfSet(DbAmounts, InRange)
         /\ {res.body.categories[k].category : k \in DOMAIN res.body.categories}
              = {db[i].category : i \in InRange}

\* three expenses of the requester dated startDate, endDate and the day after:
\* the first two are listed
C11_Witness ==
    /\ res.kind = "expenses"
    /\ res.range.given
    /\ res.category = ""
    /\ res.range.startDate < res.range.endDate
    /\ Len(db) = 3
    /\ \A i \in DOMAIN db : db[i].userId = res.user
    /\ db[1].date = res.range.startDate
    /\ db[2].date = res.range.endDate
    /\ db[3].date = res.range.endDate + 1
    /\ {res.body[k].id : k \in DOMAIN res.body} = {db[1].id, db[2].id}

(***************************************************************************)
(* Budgets: POST /api/budgets and GET /api/budgets/status                  *)
(*                                                                         *)
(* A value of the JSON body is kept with its type: Num(n) is the number n, *)
(* Str(n) the string of the decimal digits of n.                           *)
(***************************************************************************)
Num(n) == [type |-> "number", value |-> n]
Str(n) == [type |-> "string", value |-> n]

\* !limit: the number 0 is falsy, a non-empty string is not
Falsy(v) == v.type = "number" /\ v.value = 0

\* the cast of an update's value to the schema type Number
CastNumber(v) == v.value

\* the position of the first budget of the key, 0 if there is none
BudgetMatch(bs, u, category, period) ==
    IF \E i \in DOMAIN bs :
           bs[i].userId = u /\ bs[i].category = category /\ bs[i].period = period
    THEN CHOOSE i \in DOMAIN bs :
           /\ bs[i].userId = u /\ bs[i].category = category /\ bs[i].period = period
           /\ \A j \in 1..(i - 1) :
                ~(bs[j].userId = u /\ bs[j].category = category /\ bs[j].period = period)
    ELSE 0

\* the _id of a new budget: one that no budget of the collection has
NextBudgetId(bs) ==
    IF bs = <<>> THEN 1
    ELSE 1 + (CHOOSE n \in {bs[i].id : i \in DOMAIN bs} :
                  \A i \in DOMAIN bs : bs[i].id <= n)

NewBudget(id, u, category, limit, period) ==
    [id |-> id, userId |-> u, category |-> category, limit |-> limit, period |-> period]

\* POST /api/budgets, the handler from its request to its response with no other
\* request in between.  The update runs without validators.
PostBudget(u, now, category, limit, period) ==
    /\ clock' = now
    /\ UNCHANGED <<db, nextId, pending>>
    /\ UNCHANGED clientVars
    /\ IF category = "" \/ Falsy(limit) \/ period = ""
       THEN /\ res' = [kind |-> "error", status |-> 400]
            /\ UNCHANGED budgets
       ELSE LET k == BudgetMatch(budgets, u, category, period)
            IN  IF k # 0
                THEN /\ budgets' = [budgets EXCEPT ![k].limit = CastNumber(limit)]
                     /\ res' = [kind |-> "budget", status |-> 200, budget |-> budgets'[k]]
                ELSE /\ budgets' = Append(budgets,
                                          NewBudget(NextBudgetId(budgets), u, category,
                                                    CastNumber(limit), period))
                     /\ res' = [kind |-> "budget", status |-> 200,
                                budget |-> budgets'[Len(budgets')]]

\* startOfMonth = new Date(now.getFullYear(), now.getMonth(), 1)
StartOfMonth(now) == Midnight(MakeDay(getFullYear(now), getMonth(now), 1))

\* variant: the week starts at midnight
StartOfWeek_Midnight(now) == setHoursZero(setDate(now, getDate(now) - getDay(now)))

\* startOfWeek = new Date(now); startOfWeek.setDate(now.getDate() - now.getDay())
StartOfWeek(now) == setDate(now, getDate(now) - getDay(now))

\* variant: the category of the budget is matched exactly, "Total" too
BudgetExpenses_ExactOnly(u, budget, startDate) ==
    SelectSeq(db, LAMBDA e :
        /\ e.userId = u
        /\ e.category = budget.category
        /\ e.timestamp >= startDate)

\* Expense.find({ userId, category: Total ? { $exists: true } : category,
\*                timestamp: { $gte: startDate } })
BudgetExpenses(u, budget, startDate) ==
    SelectSeq(db, LAMBDA e :
        /\ e.userId = u
        /\ (budget.category = "Total" \/ e.category = budget.category)
        /\ e.timestamp >= startDate)

\* variant: a budget spent to its limit is over budget
BudgetStatusOf_OverAtLimit(u, budget, now) ==
    LET startDate == IF budget.period = "monthly" THEN StartOfMonth(now) ELSE StartOfWeek(now)
        spent == SumAmounts(BudgetExpenses(u, budget, startDate))
    IN  [budget |-> budget,
         spent |-> spent,
         remaining |-> budget.limit - spent,
         percentage |-> JsMul(JsDiv(spent, budget.limit), 100),
         isOverBudget |-> spent >= budget.limit]

BudgetStatusOf(u, budget, now) ==
    LET startDate == IF budget.period = "monthly" THEN StartOfMonth(now) ELSE StartOfWeek(now)
        spent == SumAmounts(BudgetExpenses(u, budget, startDate))
    IN  [budget |-> budget,
         spent |-> spent,
         remaining |-> budget.limit - spent,
         percentage |-> JsMul(JsDiv(spent, budget.limit), 100),
         isOverBudget |-> spent > budget.limit]

\* Budget.find({ userId })
BudgetsOf(u) == SelectSeq(budgets, LAMBDA b : b.userId = u)

GetBudgetStatus(u, now) ==
    /\ clock' = now
    /\ res' = [kind |-> "budgetStatus", status |-> 200, user |-> u,
               body |-> [i \in DOMAIN BudgetsOf(u) |-> BudgetStatusOf(u, BudgetsOf(u)[i], now)]]
    /\ UNCHANGED <<db, nextId>>
    /\ UNCHANGED budgetVars
    /\ UNCHANGED clientVars

(***************************************************************************)
(* Specification of the budget status: from Saturday 2023-12-30, second    *)
(* tick, over BudgetHorizonDays days (the week start of Sunday 12-31 and   *)
(* the month start of Monday 01-01).  Two users post expenses of amount 1; *)
(* user u1 saves budgets, one request at a time, and asks for the status.  *)
(***************************************************************************)
BudgetHorizonDays == 3
MaxBudgetDocs == 2
MaxBudgets == 2

BudgetClockStart == Midnight(MakeDay(2023, 11, 30)) + 1
BudgetLast == Midnight(MakeDay(2023, 11, 30) + BudgetHorizonDays) - 1
BudgetUsers == {"u1", "u2"}
BudgetKeys == {<<"Total", "weekly">>, <<"Food", "weekly">>, <<"Food", "monthly">>}
BudgetLimits == {Num(0), Str(0), Num(-1), Num(1)}

InitBudget == InitAt(BudgetClockStart)

BudgetExpense ==
    /\ UNCHANGED apiVars
    /\ \E u \in BudgetUsers, now \in Arrivals(BudgetLast), category \in CatCategories :
           /\ Len(db) < MaxBudgetDocs
           /\ PostExpense(u, now, 1, category, nextId, DayOf(now))

BudgetPost ==
    /\ UNCHANGED apiVars
    /\ \E now \in Arrivals(BudgetLast), key \in BudgetKeys, limit \in BudgetLimits :
           /\ Len(budgets) < MaxBudgets \/ BudgetMatch(budgets, "u1", key[1], key[2]) # 0
           /\ PostBudget("u1", now, key[1], limit, key[2])

BudgetStatus ==
    /\ UNCHANGED apiVars
    /\ \E now \in Arrivals(BudgetLast) : GetBudgetStatus("u1", now)

NextBudget == BudgetExpense \/ BudgetPost \/ BudgetStatus

SpecBudget == InitBudget /\ [][NextBudget]_vars

(***************************************************************************)
(* Properties of the budget status                                         *)
(***************************************************************************)
StatusAnswered == res.kind = "budgetStatus"

\* the sum of the requester's expenses stamped at or after from, of category c
\* or, for c = "Total", of any category
SumOfCategoryFrom(u, c, from) ==
    SumAmounts(SelectSeq(db, LAMBDA e :
        e.userId = u /\ (c = "Total" \/ e.category = c) /\ from <= e.timestamp))

\* the monthly window of the budget status starts at the calendar-month start
BudgetMonthlyWindow ==
    StatusAnswered =>
        \A k \in DOMAIN res.body :
            res.body[k].budget.period = "monthly" =>
                res.body[k].spent
                  = SumOfCategoryFrom(res.user, res.body[k].budget.category, MonthStartOf(clock))

\* C12: a weekly "Total" budget counts an expense iff the trend report of the
\* same instant counts it in the current week (the two windows start at the
\* same instant), and a monthly budget's window starts at the month start.
C12_SameWeekStart ==
    /\ StatusAnswered =>
         \A k \in DOMAIN res.body :
             (res.body[k].budget.period = "weekly" /\ res.body[k].budget.category = "Total") =>
                 res.body[k].spent = TrendsReport(res.user, clock).week.current
    /\ BudgetMonthlyWindow

\* the instant at which the status request of instant t starts the window of a
\* budget of the period: the month start, or the week's Sunday at the time of
\* day of t
WindowStartOf(period, t) ==
    IF period = "monthly" THEN MonthStartOf(t) ELSE WeekStartOf(t) + TickOf(t)

\* the requester's expenses that a budget of category c is about, within the
\* window that starts at from: all of them for "Total", those of category c otherwise
Matching(u, c, from) ==
    {i \in DOMAIN db :
        /\ db[i].userId = u
        /\ from <= db[i].timestamp
        /\ (c # "Total" => db[i].category = c)}

\* C13: a "Total" budget counts every expense of the requester within its
\* window whatever the category, any other budget exactly those of its category.
C13_CategoryFilter ==
    StatusAnswered =>
        \A k \in DOMAIN res.body :
            LET b == res.body[k].budget
                from == WindowStartOf(b.period, clock)
            IN  IF b.category = "Total"
                THEN res.body[k].spent
                       = SumOfSet(DbAmounts, {i \in DOMAIN db :
                             db[i].userId = res.user /\ from <= db[i].timestamp})
                ELSE res.body[k].spent
                       = SumOfSet(DbAmounts, {i \in DOMAIN db :
                             /\ db[i].userId = res.user /\ from <= db[i].timestamp
                             /\ db[i].category = b.category})

\* a Food and a Transport expense of the requester: Total counts 2, Food 1
C13_Witness ==
    /\ StatusAnswered
    /\ Len(res.body) = 2
    /\ res.body[1].budget.category = "Total"
    /\ res.body[1].spent = 2
    /\ res.body[2].budget.category = "Food"
    /\ res.body[2].spent = 1
    /\ {db[i].category : i \in DOMAIN db} = {"Food", "Transport"}
    /\ \A i \in DOMAIN db : db[i].userId = res.user

\* C14: in every entry spent is the sum of the matching amounts, remaining is
\* limit - spent and isOverBudget is spent > limit.
C14_SpentRemainingOver ==
    StatusAnswered =>
        \A k \in DOMAIN res.body :
            LET e == res.body[k]
            IN  /\ e.spent = SumOfSet(DbAmounts,
                       Matching(res.user, e.budget.category,
                                WindowStartOf(e.budget.period, clock)))
                /\ e.remaining = e.budget.limit - e.spent
                /\ e.isOverBudget = (e.spent > e.budget.limit)

\* a budget spent exactly to its limit (not over) next to one that is over
C14_Witness ==
    /\ StatusAnswered
    /\ Len(res.body) = 2
    /\ res.body[1].budget.limit = 1
    /\ res.body[1].spent = 1
    /\ res.body[1].remaining = 0
    /\ ~res.body[1].isOverBudget
    /\ res.body[2].budget.limit = 1
    /\ res.body[2].spent = 2
    /\ res.body[2].remaining = -1
    /\ res.body[2].isOverBudget

\* C15: the percentage of a budget of limit 0 is a defined number, never NaN
\* or an infinity.
C15_ZeroLimitFallback ==
    StatusAnswered =>
        \A k \in DOMAIN res.body :
            res.body[k].budget.limit = 0 => res.body[k].percentage.den # 0

\* C20: every stored budget has limit >= 0.
C20_LimitNonNegative ==
    \A i \in DOMAIN budgets : budgets[i].limit >= 0

(***************************************************************************)
(* POST /api/budgets with handlers that overlap.                           *)
(*                                                                         *)
(* The collection has no unique index on (userId, category, period)        *)
(* (budgetSchema.index({ userId: 1, category: 1 }) is not unique), so the  *)
(* store does not serialise the upserts of one key: an upsert that found   *)
(* no document inserts one even when another upsert of the key inserted in *)
(* between.  An upsert that finds a document updates it in one step.       *)
(***************************************************************************)
\* the handler up to the filter of its findOneAndUpdate
PostBudgetBegin(u, now, category, limit, period) ==
    /\ clock' = now
    /\ UNCHANGED <<db, nextId>>
    /\ UNCHANGED clientVars
    /\ IF category = "" \/ Falsy(limit) \/ period = ""
       THEN /\ res' = [kind |-> "error", status |-> 400]
            /\ UNCHANGED <<budgets, pending>>
       ELSE LET k == BudgetMatch(budgets, u, category, period)
                n == CHOOSE n \in 1..(Cardinality(pending) + 1) :
                         \A r \in pending : r.n # n
            IN  IF k # 0
                THEN /\ budgets' = [budgets EXCEPT ![k].limit = CastNumber(limit)]
                     /\ res' = [kind |-> "budget", status |-> 200, budget |-> budgets'[k]]
                     /\ UNCHANGED pending
                ELSE /\ pending' = pending \cup
                            {[n |-> n, userId |-> u, category |-> category,
                              limit |-> CastNumber(limit), period |-> period]}
                     /\ UNCHANGED <<budgets, res>>

\* the insert of an upsert that found no document, and the handler's response
PostBudgetInsert(r) ==
    /\ r \in pending
    /\ pending' = pending \ {r}
    /\ budgets' = Append(budgets,
                         NewBudget(NextBudgetId(budgets), r.userId, r.category, r.limit, r.period))
    /\ res' = [kind |-> "budget", status |-> 200, budget |-> budgets'[Len(budgets')]]
    /\ UNCHANGED <<db, nextId, clock>>
    /\ UNCHANGED clientVars

(***************************************************************************)
(* Specification of the overlapping budget requests: up to MaxInFlight     *)
(* requests of two users are between their filter and their insert.       *)
(***************************************************************************)
MaxInFlight == 2
MaxUpsertBudgets == 3

UpsertBegin ==
    /\ UNCHANGED apiVars
    /\ \E u \in BudgetUsers, key \in BudgetKeys, limit \in BudgetLimits :
           /\ Cardinality(pending) < MaxInFlight
           /\ Len(budgets) + Cardinality(pending) < MaxUpsertBudgets
                \/ BudgetMatch(budgets, u, key[1], key[2]) # 0
           /\ PostBudgetBegin(u, clock, key[1], limit, key[2])

UpsertInsert ==
    /\ UNCHANGED apiVars
    /\ \E r \in pending : PostBudgetInsert(r)

NextUpsert == UpsertBegin \/ UpsertInsert

SpecUpsert == Init /\ [][NextUpsert]_vars

\* C16: the store holds at most one budget per (userId, category, period),
\* whatever the order and the overlap of the POST /api/budgets requests.
C16_OneBudgetPerKey ==
    \A i \in DOMAIN budgets : \A j \in DOMAIN budgets :
        (/\ budgets[i].userId = budgets[j].userId
         /\ budgets[i].category = budgets[j].category
         /\ budgets[i].period = budgets[j].period) => i = j

\* what C16 says of a request for an existing key: when handlers do not overlap,
\* a POST changes at most the limit of the one budget of its key or adds a budget
\* of a key that had none
SequentialUpsert ==
    [][ /\ \A i \in DOMAIN budgets :
             /\ i \in DOMAIN budgets'
             /\ budgets'[i].id = budgets[i].id
             /\ budgets'[i].userId = budgets[i].userId
             /\ budgets'[i].category = budgets[i].category
             /\ budgets'[i].period = budgets[i].period
        /\ Cardinality({i \in DOMAIN budgets : budgets'[i] # budgets[i]}) <= 1
        /\ Len(budgets') <= Len(budgets) + 1
        /\ Len(budgets') = Len(budgets) + 1 =>
             /\ \A i \in DOMAIN budgets : budgets'[i] = budgets[i]
             /\ BudgetMatch(budgets, budgets'[Len(budgets')].userId,
                            budgets'[Len(budgets')].category,
                            budgets'[Len(budgets')].period) = 0 ]_vars

(***************************************************************************)
(* Specification of the client's daily series: the client is in one of the *)
(* time zones TzOffsets; expenses of amount 1 or 2 are added with dates    *)
(* from DailyDaysBack days before the UTC day to DailyDaysAhead days after *)
(* it, over DailyHorizonDays days of the client's clock.                   *)
(***************************************************************************)
MaxDailyExpenses == 2
DailyDaysBack == 7
DailyDaysAhead == 1
DailyHorizonDays == 2

TzOffsets == {-1, 0, 1}
DailyAmountTexts == {"", "1", "2"}
DailyLast == ClockStart + DailyHorizonDays * TicksPerDay - 1
DailyDates == (DayOf(cNow) - DailyDaysBack)..(DayOf(cNow) + DailyDaysAhead)

InitDaily ==
    /\ db = <<>>
    /\ nextId = 1
    /\ clock = ClockStart
    /\ res = NoRes
    /\ cExpenses = <<>>
    /\ onboardingComplete = FALSE
    /\ showFirstTimeGuide = FALSE
    /\ hasSeenFirstTimeGuide = FALSE
    /\ cNow = ClockStart
    /\ budgets = <<>>
    /\ pending = {}
    /\ tz \in TzOffsets
    /\ users = <<>>
    /\ registering = <<>>
    /\ trending = NoTrending
    /\ hits = 0
    /\ req = NoReq
    /\ storage = FirstMount
    /\ savingGoals = <<>>
    /\ mounts = 1
    /\ wizard = WizardStart
    /\ modal = ModalStart(ClockStart)

DailyOnboard == HandleOnboardingComplete

DailySubmit ==
    \E amount \in DailyAmountTexts, date \in DailyDates :
        /\ Len(cExpenses) < MaxDailyExpenses
        /\ HandleSubmit(amount, "Transport", "", date)

DailyDelete == \E i \in DOMAIN cExpenses : HandleDeleteExpense(i)

DailyTick == ClientTick(DailyLast)

NextDaily == DailyOnboard \/ DailySubmit \/ DailyDelete \/ DailyTick

SpecDaily == InitDaily /\ [][NextDaily]_vars

(***************************************************************************)
(* Properties of the client's daily series                                 *)
(***************************************************************************)
\* the sum of the amounts of the client's expenses dated day
SpentOn(day) ==
    SumAmounts(SelectSeq(cExpenses, LAMBDA e : e.date = day))

\* the calendar day of the client, in its time zone
LocalToday == DayOf(cNow + tz)

\* the series as the code keys it: seven consecutive days that end at the UTC
\* day of now, each with the sum of the expenses of exactly that date
DailySeriesOfUtcDays ==
    onboardingComplete =>
        /\ Len(DailySpending(cExpenses, cNow)) = 7
        /\ Len(dailyData) = 7
        /\ \A i \in 1..7 :
             /\ Last7Days(cNow)[i] = DayOf(cNow) - (7 - i)
             /\ DailySpending(cExpenses, cNow)[i].amount = SpentOn(DayOf(cNow) - (7 - i))
             /\ dailyData[i].amount = SpentOn(DayOf(cNow) - (7 - i))

\* C17: the dashboard's dailySpending and the modal's dailyData have 7 entries,
\* oldest first, the last one for today; entry i (counted from 0) is the sum of
\* the expenses dated (6 - i) days before today, 0 when there is none.
C17_DailySeries ==
    onboardingComplete =>
        /\ Len(DailySpending(cExpenses, cNow)) = 7
        /\ Len(dailyData) = 7
        /\ \A i \in 1..7 :
             /\ Last7Days(cNow)[i] = LocalToday - (7 - i)
             /\ DailySpending(cExpenses, cNow)[i].amount = SpentOn(LocalToday - (7 - i))
             /\ dailyData[i].amount = SpentOn(LocalToday - (7 - i))

(***************************************************************************)
(* PUT /api/expenses/:id                                                   *)
(***************************************************************************)
\* variant: the document is looked up by its id alone
ExpenseOf_AnyOwner(u, id) ==
    IF \E i \in DOMAIN db : db[i].id = id
    THEN CHOOSE i \in DOMAIN db : db[i].id = id
    ELSE 0

\* the position of the document of the id that belongs to u, 0 if there is none
ExpenseOf(u, id) ==
    IF \E i \in DOMAIN db : db[i].id = id /\ db[i].userId = u
    THEN CHOOSE i \in DOMAIN db : db[i].id = id /\ db[i].userId = u
    ELSE 0

\* variant: the update runs without the schema's validators
PutExpense_NoValidators(u, now, id, amount, category, description, date) ==
    /\ clock' = now
    /\ UNCHANGED nextId
    /\ UNCHANGED budgetVars
    /\ UNCHANGED clientVars
    /\ IF ExpenseOf(u, id) = 0
       THEN /\ res' = [kind |-> "error", status |-> 404]
            /\ UNCHANGED db
       ELSE /\ db' = [db EXCEPT ![ExpenseOf(u, id)] =
                         [@ EXCEPT !.amount = amount, !.category = category,
                                   !.description = description, !.date = date]]
            /\ res' = [kind |-> "updated", status |-> 200]

\* findOneAndUpdate({ _id, userId }, { amount, category, description, date },
\*                  { new: true, runValidators: true })
PutExpense(u, now, id, amount, category, description, date) ==
    /\ clock' = now
    /\ UNCHANGED nextId
    /\ UNCHANGED budgetVars
    /\ UNCHANGED clientVars
    /\ IF ~(amount >= 0 /\ category \in ExpenseCategories)
       THEN /\ res' = [kind |-> "error", status |-> 500]
            /\ UNCHANGED db
       ELSE IF ExpenseOf(u, id) = 0
       THEN /\ res' = [kind |-> "error", status |-> 404]
            /\ UNCHANGED db
       ELSE /\ db' = [db EXCEPT ![ExpenseOf(u, id)] =
                         [@ EXCEPT !.amount = amount, !.category = category,
                                   !.description = description, !.date = date]]
            /\ res' = [kind |-> "updated", status |-> 200]

(***************************************************************************)
(* Specification of the stored amounts: two users create expenses one by   *)
(* one and in bulk and update them, with amounts that are negative, zero   *)
(* and positive.                                                           *)
(***************************************************************************)
MaxAmountDocs == 3
MaxBulkLen == 2

PostAmounts == {-1, 0, 1}
PutAmounts == {-1, 0, 2}
AmountItem(a) ==
    [amount |-> a, category |-> "Food", description |-> "bulk",
     date |-> DayOf(clock), timestamp |-> -1]
AmountPayloads ==
    UNION {[1..n -> {AmountItem(a) : a \in PostAmounts}] : n \in 1..MaxBulkLen}

AmountPost ==
    /\ UNCHANGED apiVars
    /\ \E u \in BudgetUsers, amount \in PostAmounts :
           /\ Len(db) < MaxAmountDocs
           /\ PostExpense(u, clock, amount, "Food", "post", DayOf(clock))

AmountBulk ==
    /\ UNCHANGED apiVars
    /\ \E u \in BudgetUsers, expenses \in AmountPayloads :
           /\ Len(db) + Len(expenses) <= MaxAmountDocs
           /\ PostBulk(u, clock, expenses)

AmountPut ==
    /\ UNCHANGED apiVars
    /\ \E u \in BudgetUsers, id \in 1..nextId, amount \in PutAmounts :
           PutExpense(u, clock, id, amount, "Transport", "put", DayOf(clock))

NextAmounts == AmountPost \/ AmountBulk \/ AmountPut

SpecAmounts == Init /\ [][NextAmounts]_vars

(***************************************************************************)
(* Properties of the stored amounts                                        *)
(***************************************************************************)
\* a step that is a request carrying a negative amount: a POST or a PUT of a
\* negative amount, or a bulk insert with a negative amount among its items
NegativeAmountRequest ==
    \/ \E u \in BudgetUsers, amount \in {a \in PostAmounts : a < 0} :
           PostExpense(u, clock, amount, "Food", "post", DayOf(clock))
    \/ \E u \in BudgetUsers,
          expenses \in {p \in AmountPayloads : \E i \in DOMAIN p : p[i].amount < 0} :
           PostBulk(u, clock, expenses)
    \/ \E u \in BudgetUsers, id \in 1..nextId, amount \in {a \in PutAmounts : a < 0} :
           PutExpense(u, clock, id, amount, "Transport", "put", DayOf(clock))

\* C18: every stored expense has amount >= 0, and a request that carries a
\* negative amount leaves the stored expenses as they were.
C18_ServerAmountsNonNegative ==
    /\ [](\A i \in DOMAIN db : db[i].amount >= 0)
    /\ [][NegativeAmountRequest => db' = db]_vars

\* expenses stored with amount 0 (bulk) and updated to amount 2 (PUT), and the
\* last request refused by the validators
C18_Witness ==
    /\ res = [kind |-> "error", status |-> 500]
    /\ Len(db) = 3
    /\ \E i \in DOMAIN db : db[i].amount = 0 /\ db[i].source = "ocr"
    /\ \E i \in DOMAIN db : db[i].amount = 2
    /\ \E i \in DOMAIN db : db[i].amount = 1 /\ db[i].source = "manual"

(***************************************************************************)
(* Properties of the client's expense list                                 *)
(***************************************************************************)
\* C19: every expense of the client's list has amount >= 0, after any sequence
\* of AddExpenseModal submits and Calendar saves.
C19_ClientAmountsNonNegative ==
    \A i \in DOMAIN cExpenses : cExpenses[i].amount >= 0

(***************************************************************************)
(* DELETE /api/expenses/:id, GET /api/budgets, DELETE /api/budgets/:id      *)
(***************************************************************************)
\* xs without its entry k
RemoveAt(xs, k) == [i \in 1..(Len(xs) - 1) |-> IF i < k THEN xs[i] ELSE xs[i + 1]]

\* Expense.findOneAndDelete({ _id, userId })
DeleteExpense(u, now, id) ==
    /\ clock' = now
    /\ UNCHANGED nextId
    /\ UNCHANGED budgetVars
    /\ UNCHANGED clientVars
    /\ IF ExpenseOf(u, id) = 0
       THEN /\ res' = [kind |-> "error", status |-> 404]
            /\ UNCHANGED db
       ELSE /\ db' = RemoveAt(db, ExpenseOf(u, id))
            /\ res' = [kind |-> "deleted", status |-> 200]

\* Budget.find({ userId })
GetBudgets(u, now) ==
    /\ clock' = now
    /\ res' = [kind |-> "budgets", status |-> 200, user |-> u, body |-> BudgetsOf(u)]
    /\ UNCHANGED <<db, nextId>>
    /\ UNCHANGED budgetVars
    /\ UNCHANGED clientVars

\* the position of the budget of the id that belongs to u, 0 if there is none
BudgetOf(u, id) ==
    IF \E i \in DOMAIN budgets : budgets[i].id = id /\ budgets[i].userId = u
    THEN CHOOSE i \in DOMAIN budgets : budgets[i].id = id /\ budgets[i].userId = u
    ELSE 0

\* Budget.findOneAndDelete({ _id, userId }); the answer is the same whether or
\* not a budget was found
DeleteBudget(u, now, id) ==
    /\ clock' = now
    /\ UNCHANGED <<db, nextId, pending>>
    /\ UNCHANGED clientVars
    /\ budgets' = IF BudgetOf(u, id) = 0 THEN budgets ELSE RemoveAt(budgets, BudgetOf(u, id))
    /\ res' = [kind |-> "deleted", status |-> 200]

(***************************************************************************)
(* The middleware in front of the routes: express.json, the rate limiter   *)
(* on /api/, authMiddleware.                                               *)
(***************************************************************************)
\* variant: the token is decoded without being verified
AuthMiddleware_NoVerify(token) ==
    IF ~token.given THEN [next |-> FALSE, userId |-> ""]
    ELSE [next |-> TRUE, userId |-> token.userId]

\* authMiddleware: next is whether next() is called, with req.userId = userId
AuthMiddleware(token) ==
    IF ~token.given THEN [next |-> FALSE, userId |-> ""]
    ELSE IF ~token.valid THEN [next |-> FALSE, userId |-> ""]
    ELSE [next |-> TRUE, userId |-> token.userId]

\* max of the rate limiter (100 in the source), scaled down
RateLimitMax == 1

\* a request answered before its handler
Refuse(status) ==
    /\ res' = [kind |-> "error", status |-> status]
    /\ UNCHANGED <<db, nextId, clock>>
    /\ UNCHANGED budgetVars
    /\ UNCHANGED clientVars

\* The middleware in front of a route declared with authMiddleware.  A body
\* that is not JSON makes express.json fail, and the error handler answers
\* 500; the rate limiter answers 429 to the requests over max in its window;
\* authMiddleware answers 401 unless the token is verified.
Reaches(malformed, token) ==
    ~malformed /\ hits + 1 <= RateLimitMax /\ AuthMiddleware(token).next

Refused(malformed, token) ==
    IF malformed THEN Refuse(500)
    ELSE IF hits + 1 > RateLimitMax THEN Refuse(429)
    ELSE Refuse(401)

\* what a request changes apart from its handler
Middleware(route, id, malformed, token) ==
    /\ req' = [route |-> route, id |-> id, token |-> token]
    /\ hits' = IF malformed THEN hits ELSE Min(hits + 1, RateLimitMax + 1)
    /\ UNCHANGED <<users, registering, trending>>

\* the window of the rate limiter (15 minutes) ends
RateLimitReset ==
    /\ hits > 0
    /\ hits' = 0
    /\ UNCHANGED <<db, nextId, clock, res, budgets, pending, users, registering, trending, req>>
    /\ UNCHANGED clientVars

(***************************************************************************)
(* Specification of the API: two users send requests to every route of     *)
(* expenses, analytics and budgets, with no token, a rejected token or a   *)
(* valid one, and with ids of their own and of the other user's records.   *)
(* A bulk payload carries a userId of its own.                             *)
(***************************************************************************)
MaxApiDocs == 2
MaxApiIds == 2
MaxApiBudgets == 1
MaxApiBudgetIds == 1

ApiUsers == {"u1", "u2"}
ApiTokens == {NoToken, Jwt("u1", FALSE)} \cup {Jwt(u, TRUE) : u \in ApiUsers}
ApiCategories == {"Food"}

ApiPost(malformed, token) ==
    /\ Len(db) < MaxApiDocs /\ nextId <= MaxApiIds
    /\ Middleware("POST /api/expenses", 0, malformed, token)
    /\ IF Reaches(malformed, token)
       THEN PostExpense(AuthMiddleware(token).userId, clock, 1, "Food", "", DayOf(clock))
       ELSE Refused(malformed, token)

ApiBulk(malformed, token) ==
    \E owner \in ApiUsers :
        /\ Len(db) < MaxApiDocs /\ nextId <= MaxApiIds
        /\ Middleware("POST /api/expenses/bulk", 0, malformed, token)
        /\ IF Reaches(malformed, token)
           THEN PostBulk(AuthMiddleware(token).userId, clock,
                    <<[amount |-> 1, category |-> "Food", description |-> "",
                       date |-> DayOf(clock), timestamp |-> -1, userId |-> owner]>>)
           ELSE Refused(malformed, token)

ApiPut(malformed, token) ==
    \E id \in 1..(nextId - 1) :
        /\ Middleware("PUT /api/expenses/:id", id, malformed, token)
        /\ IF Reaches(malformed, token)
           THEN PutExpense(AuthMiddleware(token).userId, clock, id, 2, "Food", "", DayOf(clock))
           ELSE Refused(malformed, token)

ApiDelete(malformed, token) ==
    \E id \in 1..(nextId - 1) :
        /\ Middleware("DELETE /api/expenses/:id", id, malformed, token)
        /\ IF Reaches(malformed, token)
           THEN DeleteExpense(AuthMiddleware(token).userId, clock, id)
           ELSE Refused(malformed, token)

ApiList(malformed, token) ==
    /\ Middleware("GET /api/expenses", 0, malformed, token)
    /\ IF Reaches(malformed, token)
       THEN GetExpenses(AuthMiddleware(token).userId, clock, NoRange, "")
       ELSE Refused(malformed, token)

ApiTrends(malformed, token) ==
    /\ Middleware("GET /api/analytics/trends", 0, malformed, token)
    /\ IF Reaches(malformed, token)
       THEN GetTrends(AuthMiddleware(token).userId, clock)
       ELSE Refused(malformed, token)

ApiCategoryReport(malformed, token) ==
    /\ Middleware("GET /api/analytics/categories", 0, malformed, token)
    /\ IF Reaches(malformed, token)
       THEN GetCategories(AuthMiddleware(token).userId, clock, NoRange)
       ELSE Refused(malformed, token)

ApiBudgetPost(malformed, token) ==
    \E category \in ApiCategories :
        /\ Len(budgets) < MaxApiBudgets /\ NextBudgetId(budgets) <= MaxApiBudgetIds
        /\ Middleware("POST /api/budgets", 0, malformed, token)
        /\ IF Reaches(malformed, token)
           THEN PostBudget(AuthMiddleware(token).userId, clock, category, Num(2), "monthly")
           ELSE Refused(malformed, token)

ApiBudgetDelete(malformed, token) ==
    \E id \in 1..MaxApiBudgetIds :
        /\ Middleware("DELETE /api/budgets/:id", id, malformed, token)
        /\ IF Reaches(malformed, token)
           THEN DeleteBudget(AuthMiddleware(token).userId, clock, id)
           ELSE Refused(malformed, token)

ApiBudgets(malformed, token) ==
    /\ Middleware("GET /api/budgets", 0, malformed, token)
    /\ IF Reaches(malformed, token)
       THEN GetBudgets(AuthMiddleware(token).userId, clock)
       ELSE Refused(malformed, token)

ApiBudgetStatus(malformed, token) ==
    /\ Middleware("GET /api/budgets/status", 0, malformed, token)
    /\ IF Reaches(malformed, token)
       THEN GetBudgetStatus(AuthMiddleware(token).userId, clock)
       ELSE Refused(malformed, token)

ApiRequest(malformed, token) ==
    \/ ApiPost(malformed, token)
    \/ ApiBulk(malformed, token)
    \/ ApiPut(malformed, token)
    \/ ApiDelete(malformed, token)
    \/ ApiList(malformed, token)
    \/ ApiTrends(malformed, token)
    \/ ApiCategoryReport(malformed, token)
    \/ ApiBudgetPost(malformed, token)
    \/ ApiBudgetDelete(malformed, token)
    \/ ApiBudgets(malformed, token)
    \/ ApiBudgetStatus(malformed, token)

NextApi ==
    \/ \E malformed \in BOOLEAN, token \in ApiTokens : ApiRequest(malformed, token)
    \/ RateLimitReset

SpecApi == Init /\ [][NextApi]_vars

(***************************************************************************)
(* Ownership of the stored records                                         *)
(***************************************************************************)
\* a request that passes the body parser and the rate limiter with a valid
\* token of user u
Reached == hits' = hits + 1 /\ hits' <= RateLimitMax

ApiBy(u) == Reached /\ req'.token = Jwt(u, TRUE)

OthersOf(u, xs) == SelectSeq(xs, LAMBDA x : x.userId # u)
OwnExpenses(u) == SelectSeq(db, LAMBDA e : e.userId = u)

\* PUT or DELETE by u on the id of a stored expense of another user
OnAnothersExpense(u, id) ==
    /\ ApiBy(u)
    /\ req'.route \in {"PUT /api/expenses/:id", "DELETE /api/expenses/:id"}
    /\ req'.id = id
    /\ \E i \in DOMAIN db : db[i].id = id /\ db[i].userId # u

\* the answer to a read of u counts the records of u and no others (every
\* expense of this specification is created at the instant of the requests,
\* so within the current week and month)
CountsOnlyOwn(u, r) ==
    /\ r.kind = "expenses" =>
          /\ \A i \in DOMAIN r.body : r.body[i].userId = u
          /\ Len(r.body) = Len(OwnExpenses(u))
    /\ r.kind = "trends" =>
          /\ r.body.week.current = SumAmounts(OwnExpenses(u))
          /\ r.body.month.current = SumAmounts(OwnExpenses(u))
    /\ r.kind = "categories" =>
          /\ r.body.totalSpent = SumAmounts(OwnExpenses(u))
          /\ r.body.totalTransactions = Len(OwnExpenses(u))
    /\ r.kind = "budgets" => \A i \in DOMAIN r.body : r.body[i].userId = u
    /\ r.kind = "budgetStatus" =>
          \A i \in DOMAIN r.body :
              /\ r.body[i].budget.userId = u
              /\ r.body[i].spent = SumAmounts(OwnExpenses(u))

Unauthenticated == hits' >= hits /\ ~(req'.token.given /\ req'.token.valid)

TrendsInFlight == trending.user # "" /\ Len(trending.found) < 4

\* the expenses of docs that query k of the handler selects
TrendsSelect(k, docs, now) ==
    SelectSeq(docs, LAMBDA e :
        CASE k = 1 -> e.timestamp >= StartOfCurrentWeek(now)
          [] k = 2 -> e.timestamp >= StartOfLastWeek(now)
                      /\ e.timestamp < StartOfCurrentWeek(now)
          [] k = 3 -> e.timestamp >= StartOfCurrentMonth(now)
          [] OTHER -> e.timestamp >= StartOfLastMonth(now)
                      /\ e.timestamp < StartOfCurrentMonth(now))

\* the handler up to its first await
TrendsBegin(u, now) ==
    /\ ~TrendsInFlight
    /\ trending' = [user |-> u, now |-> now, found |-> <<>>, seen |-> {}]
    /\ clock' = now
    /\ UNCHANGED <<db, nextId, res>>
    /\ UNCHANGED budgetVars
    /\ UNCHANGED clientVars

\* the next query of the handler returns; after the fourth the handler
\* computes the totals and answers
TrendsQuery ==
    /\ TrendsInFlight
    /\ LET u == trending.user
           own == SelectSeq(db, LAMBDA e : e.userId = u)
           found == Append(trending.found,
                           SumAmounts(TrendsSelect(Len(trending.found) + 1, own, trending.now)))
       IN  /\ trending' = [trending EXCEPT !.found = found, !.seen = @ \cup {own}]
           /\ IF Len(found) < 4
              THEN UNCHANGED res
              ELSE res' = [kind |-> "trends", status |-> 200, user |-> u,
                           body |-> [week |-> TrendWindow(found[1], found[2]),
                                     month |-> TrendWindow(found[3], found[4])]]
    /\ UNCHANGED <<db, nextId, clock>>
    /\ UNCHANGED budgetVars
    /\ UNCHANGED clientVars

(***************************************************************************)
(* Specification of the trend report among other requests: one user asks   *)
(* for the report and creates, updates and deletes expenses, all at one    *)
(* instant.                                                                *)
(***************************************************************************)
MaxSnapDocs == 2
MaxSnapIds == 3

SnapBegin ==
    /\ TrendsBegin("u1", clock)
    /\ UNCHANGED <<users, registering, hits, req>>

SnapQuery ==
    /\ TrendsQuery
    /\ UNCHANGED <<users, registering, hits, req>>

SnapPost ==
    /\ Len(db) < MaxSnapDocs /\ nextId <= MaxSnapIds
    /\ PostExpense("u1", clock, 1, "Food", "", DayOf(clock))
    /\ UNCHANGED apiVars

SnapPut ==
    /\ UNCHANGED apiVars
    /\ \E id \in 1..(nextId - 1) : PutExpense("u1", clock, id, 2, "Food", "", DayOf(clock))

SnapDelete ==
    /\ UNCHANGED apiVars
    /\ \E id \in 1..(nextId - 1) : DeleteExpense("u1", clock, id)

NextSnapshot == SnapBegin \/ SnapQuery \/ SnapPost \/ SnapPut \/ SnapDelete

SpecSnapshot == Init /\ [][NextSnapshot]_vars

\* the four totals that the handler would find if all its queries ran on docs
TotalsOn(docs, now) ==
    [k \in 1..4 |-> SumAmounts(TrendsSelect(k, docs, now))]

TrendsReadOnly ==
    [][(SnapBegin \/ SnapQuery) => (db' = db /\ budgets' = budgets /\ users' = users)]_vars

\* when no other request is handled between the handler's queries, the
\* answer is the report of the handler taken as one step
TrendsUninterrupted ==
    (trending.user # "" /\ Len(trending.found) = 4 /\ Cardinality(trending.seen) = 1
     /\ res.kind = "trends")
        => res.body = TrendsReport(trending.user, trending.now)

(***************************************************************************)
(* POST /api/auth/register.  The handler awaits User.findOne and then      *)
(* user.save; other requests are handled in between.  registering holds    *)
(* the requests that have passed findOne and not yet saved.  The schema    *)
(* trims and lowercases the email of a saved user, and the unique index on *)
(* email rejects a save of an email that is stored (E11000, answered 500). *)
(***************************************************************************)
\* email: { lowercase: true, trim: true }
Normalise(email) ==
    CASE email = "A@x.com" -> "a@x.com"
      [] email = " a@x.com" -> "a@x.com"
      [] OTHER -> email

\* password.length
PasswordLength(password) ==
    CASE password = "" -> 0
      [] password = "12345" -> 5
      [] OTHER -> 6

EmailStored(email) == \E i \in DOMAIN users : users[i].email = email

\* the handler up to the return of User.findOne({ email }); whether the
\* schema's setters are applied to the filter depends on the version of the
\* library, so the filter is the email as sent or normalised
RegisterBegin(email, password, name) ==
    /\ UNCHANGED <<db, nextId, clock, budgets, pending, users, trending, hits, req>>
    /\ UNCHANGED clientVars
    /\ IF email = "" \/ password = "" \/ name = ""
       THEN /\ res' = [kind |-> "error", status |-> 400]
            /\ UNCHANGED registering
       ELSE IF PasswordLength(password) < 6
       THEN /\ res' = [kind |-> "error", status |-> 400]
            /\ UNCHANGED registering
       ELSE \E filter \in {email, Normalise(email)} :
               IF EmailStored(filter)
               THEN /\ res' = [kind |-> "error", status |-> 400]
                    /\ UNCHANGED registering
               ELSE /\ registering' = Append(registering, [email |-> email, name |-> name])
                    /\ UNCHANGED res

\* variant: the collection has no unique index on email
RegisterSave_NoUniqueIndex(k) ==
    /\ UNCHANGED <<db, nextId, clock, budgets, pending, trending, hits, req>>
    /\ UNCHANGED clientVars
    /\ registering' = RemoveAt(registering, k)
    /\ LET user == [id |-> Len(users) + 1, email |-> Normalise(registering[k].email),
                    name |-> registering[k].name]
       IN  /\ users' = Append(users, user)
           /\ res' = [kind |-> "registered", status |-> 201, token |-> user.id,
                      user |-> user]

\* the rest of the handler of the request k in flight: user.save(), jwt.sign,
\* the answer
RegisterSave(k) ==
    /\ UNCHANGED <<db, nextId, clock, budgets, pending, trending, hits, req>>
    /\ UNCHANGED clientVars
    /\ registering' = RemoveAt(registering, k)
    /\ LET user == [id |-> Len(users) + 1, email |-> Normalise(registering[k].email),
                    name |-> registering[k].name]
       IN  IF EmailStored(user.email)
           THEN /\ res' = [kind |-> "error", status |-> 500]
                /\ UNCHANGED users
           ELSE /\ users' = Append(users, user)
                /\ res' = [kind |-> "registered", status |-> 201, token |-> user.id,
                           user |-> user]

(***************************************************************************)
(* Specification of the registration: requests with two emails, one of     *)
(* them also in capitals and with a leading space, overlap.                *)
(***************************************************************************)
MaxUsers == 2
MaxRegistering == 2

RegEmails == {"", "a@x.com", "A@x.com", " a@x.com", "b@x.com"}
RegPasswords == {"12345", "123456"}
RegNames == {"Ann", "Bob"}

RegBegin ==
    \E email \in RegEmails, password \in RegPasswords, name \in RegNames :
        /\ Len(registering) < MaxRegistering
        /\ Len(users) < MaxUsers
        /\ RegisterBegin(email, password, name)

RegSave == \E k \in DOMAIN registering : RegisterSave(k)

NextRegister == RegBegin \/ RegSave

SpecRegister == Init /\ [][NextRegister]_vars

\* C23: no two stored users have the same email, whatever the interleaving
\* of the registrations; a registration of an email that is stored is
\* answered with an error, adds no user and issues no token, and no
\* registration changes a stored user.
C23_UniqueEmail ==
    /\ [](\A i, j \in DOMAIN users : i # j => users[i].email # users[j].email)
    /\ [][/\ SubSeq(users', 1, Len(users)) = users
          /\ \A k \in DOMAIN registering :
                (RegisterSave(k) /\ EmailStored(Normalise(registering[k].email)))
                    => res'.kind = "error" /\ users' = users
          /\ \A email \in RegEmails, password \in RegPasswords, name \in RegNames :
                (RegisterBegin(email, password, name) /\ EmailStored(Normalise(email)))
                    => /\ users' = users
                       /\ res'.kind = "error" \/ Len(registering') = Len(registering) + 1
          /\ Len(users') > Len(users) => res'.token = users'[Len(users')].id
         ]_vars

\* two overlapping registrations of one email: the first is stored, the
\* second was refused by the index
C23_Witness ==
    /\ Len(users) = 1
    /\ res.kind = "error" /\ res.status = 500

(***************************************************************************)
(* App.tsx: saving goals, the first-time guide, and the page load          *)
(***************************************************************************)
\* JSON.parse(JSON.stringify(list)) of a list of saving goals
JsonGoals(list) ==
    [i \in DOMAIN list |->
        [list[i] EXCEPT !.targetAmount = IF IsNaNAmount(@) THEN JsonNull ELSE @]]

\* the effect on [savingGoals]
SaveGoals == storage' = [storage EXCEPT !.savingGoals = <<JsonGoals(savingGoals')>>]

\* App.handleAddGoal
HandleAddGoal(goal) ==
    LET newGoal == [id |-> cNow, name |-> goal.name, targetAmount |-> goal.targetAmount,
                    currentAmount |-> 0, targetDate |-> goal.targetDate]
    IN  /\ savingGoals' = Append(savingGoals, newGoal)
        /\ SaveGoals
        /\ UNCHANGED <<cExpenses, onboardingComplete, showFirstTimeGuide,
                       hasSeenFirstTimeGuide, cNow, tz, uiVars>>
        /\ UNCHANGED serverVars

\* AddGoalModal.handleSubmit with the form fields as they are at the click
GoalSubmit(name, targetAmount, targetDate) ==
    /\ onboardingComplete
    /\ IF name = "" \/ targetAmount = "" \/ targetDate = 0
       THEN UNCHANGED vars
       ELSE HandleAddGoal([name |-> name, targetAmount |-> ParseFloat(targetAmount),
                           targetDate |-> targetDate])

\* App.handleCloseGuide, from the guide's Go Back button
HandleCloseGuide ==
    /\ showFirstTimeGuide
    /\ showFirstTimeGuide' = FALSE
    /\ hasSeenFirstTimeGuide' = TRUE
    /\ UNCHANGED <<cExpenses, onboardingComplete, cNow, tz, storage, savingGoals, uiVars>>
    /\ UNCHANGED serverVars

\* the guide's Add Expense button: the expense modal opens and the guide
\* closes, no key is written
GuideAddExpense ==
    /\ showFirstTimeGuide
    /\ showFirstTimeGuide' = FALSE
    /\ UNCHANGED <<cExpenses, onboardingComplete, hasSeenFirstTimeGuide, cNow, tz,
                   storage, savingGoals, uiVars>>
    /\ UNCHANGED serverVars

\* variant: the load effect runs after the save effects of the first render
SavedAtMount_AfterSave ==
    [storage EXCEPT !.expenses = <<(<<>>)>>, !.savingGoals = <<(<<>>)>>]

\* what the load effect reads: the effects of the first render run in the
\* order of their declaration, the load effect first
SavedAtMount == storage

\* The page is loaded: the App is mounted with its initial state, the load
\* effect reads localStorage and sets the state, the save effects of the first
\* render write the initial empty lists, and the effects of the second render
\* write the lists that were loaded.
Mount ==
    LET saved == SavedAtMount
        parsedExpenses == IF saved.expenses # <<>> THEN saved.expenses[1] ELSE <<>>
        parsedGoals == IF saved.savingGoals # <<>> THEN saved.savingGoals[1] ELSE <<>>
    IN  /\ onboardingComplete' = saved.onboardingComplete
        /\ showFirstTimeGuide' =
              IF Len(parsedExpenses) > 0 THEN FALSE
              ELSE saved.onboardingComplete /\ ~hasSeenFirstTimeGuide
        /\ cExpenses' = parsedExpenses
        /\ savingGoals' = parsedGoals
        /\ storage' = [storage EXCEPT !.expenses = <<JsonExpenses(cExpenses')>>,
                                      !.savingGoals = <<JsonGoals(savingGoals')>>]
        /\ mounts' = mounts + 1
        /\ wizard' = WizardStart
        /\ modal' = ModalStart(cNow)
        /\ UNCHANGED <<hasSeenFirstTimeGuide, cNow, tz>>
        /\ UNCHANGED serverVars

(***************************************************************************)
(* Specification of the App over page loads: the user completes the        *)
(* onboarding, adds, edits and deletes expenses, adds saving goals, closes *)
(* the guide, and reloads the page, while the clock advances.              *)
(***************************************************************************)
MaxAppExpenses == 2
MaxAppGoals == 2
MaxMounts == 3
AppHorizonDays == 1

AppLast == ClockStart + AppHorizonDays * TicksPerDay - 1
AppIds == ClockStart..AppLast
AppAmountTexts == {"", "1"}
AppPayloads == {[amount |-> 2, category |-> "Shopping", date |-> DayOf(ClockStart) + 1]}

AppOnboard == HandleOnboardingComplete

AppSubmit ==
    \E amount \in AppAmountTexts :
        /\ Len(cExpenses) < MaxAppExpenses
        /\ HandleSubmit(amount, "Transport", "", DayOf(cNow))

AppEdit ==
    \E id \in AppIds, updatedExpense \in AppPayloads :
        /\ onboardingComplete
        /\ HandleEditExpense(id, updatedExpense)

AppDelete == \E i \in DOMAIN cExpenses : HandleDeleteExpense(i)

AppGoal ==
    \E targetAmount \in AppAmountTexts :
        /\ Len(savingGoals) < MaxAppGoals
        /\ GoalSubmit("Trip", targetAmount, DayOf(cNow) + 1)

AppCloseGuide == HandleCloseGuide

AppGuideAdd == GuideAddExpense

AppReload == mounts < MaxMounts /\ Mount

AppTick == ClientTick(AppLast)

NextApp ==
    \/ AppOnboard \/ AppSubmit \/ AppEdit \/ AppDelete \/ AppGoal
    \/ AppCloseGuide \/ AppGuideAdd \/ AppReload \/ AppTick

SpecApp == Init /\ [][NextApp]_vars

(***************************************************************************)
(* Properties of the App over page loads                                   *)
(***************************************************************************)
\* C25: the expenses and the saving goals are persisted: localStorage holds
\* the lists of the state after every add, edit and delete, and a page load
\* (the App mounted anew, its save effects running first with the initial
\* empty lists) ends with the lists that the state had before it and with
\* localStorage as it was.
C25_ReloadKeepsData ==
    /\ [](/\ storage.expenses = <<cExpenses>>
          /\ storage.savingGoals = <<savingGoals>>)
    /\ [][mounts' # mounts =>
             /\ cExpenses' = cExpenses
             /\ savingGoals' = savingGoals
             /\ storage' = storage]_vars

\* the page has been loaded again, with two expenses, one of them edited, and
\* a saving goal in the state and in localStorage
C25_Witness ==
    /\ mounts > 1
    /\ Len(cExpenses) = 2 /\ cExpenses[1].amount = 2
    /\ savingGoals # <<>>
    /\ storage.expenses = <<cExpenses>>

\* C26: the first-time guide is shown only when the onboarding is complete,
\* the list of expenses is empty and the key hasSeenFirstTimeGuide is not
\* set; adding an expense or closing the guide with Go Back sets the key and
\* hides the guide, the key is never removed, and while it is set no step,
\* a page load included, shows the guide.
C26_GuideOnlyFirstTime ==
    /\ [](showFirstTimeGuide =>
             onboardingComplete /\ cExpenses = <<>> /\ ~hasSeenFirstTimeGuide)
    /\ [][(Len(cExpenses') > Len(cExpenses) \/ HandleCloseGuide)
             => hasSeenFirstTimeGuide' /\ ~showFirstTimeGuide']_vars
    /\ [][hasSeenFirstTimeGuide => hasSeenFirstTimeGuide' /\ ~showFirstTimeGuide']_vars

\* the page has been loaded after the onboarding, with no expense, and the
\* guide stays hidden because the key is set
C26_Witness ==
    /\ mounts > 1
    /\ onboardingComplete /\ cExpenses = <<>>
    /\ hasSeenFirstTimeGuide /\ ~showFirstTimeGuide

\* the entry that handleEditExpense(id, updatedExpense) puts in place of an
\* expense of that id
Edited(id, updatedExpense) ==
    [id |-> id, amount |-> updatedExpense.amount, category |-> updatedExpense.category,
     date |-> updatedExpense.date]

\* C27: handleEditExpense(id, e) keeps the length and the order of the list,
\* replaces the entries of that id by e with the id kept, and changes no
\* other entry (nothing when no entry has the id); handleDeleteExpense(id)
\* removes the entries of that id and keeps the others in their order.
C27_EditAndDeleteById ==
    [][/\ \A id \in AppIds, updatedExpense \in AppPayloads :
             HandleEditExpense(id, updatedExpense) =>
                /\ Len(cExpenses') = Len(cExpenses)
                /\ \A i \in DOMAIN cExpenses :
                      cExpenses'[i] = IF cExpenses[i].id = id
                                      THEN Edited(id, updatedExpense)
                                      ELSE cExpenses[i]
       /\ \A i \in DOMAIN cExpenses :
             HandleDeleteExpense(i) =>
                /\ \A j \in DOMAIN cExpenses' : cExpenses'[j].id # cExpenses[i].id
                /\ cExpenses' = SelectSeq(cExpenses, LAMBDA e : e.id # cExpenses[i].id)
      ]_vars

\* the second of two expenses has been edited, the first is as it was added
C27_Witness ==
    /\ Len(cExpenses) = 2
    /\ cExpenses[1].amount = 1 /\ cExpenses[1].category = "Transport"
    /\ cExpenses[2].amount = 2 /\ cExpenses[2].category = "Shopping"
    /\ cExpenses[1].id # cExpenses[2].id

\* C28: the ids of the expenses are pairwise distinct, and so are the ids of
\* the saving goals.
C28_DistinctIds ==
    /\ \A i, j \in DOMAIN cExpenses : i # j => cExpenses[i].id # cExpenses[j].id
    /\ \A i, j \in DOMAIN savingGoals : i # j => savingGoals[i].id # savingGoals[j].id

\* an edit or a delete by id changes at most one expense
OneExpensePerStep ==
    [][(Len(cExpenses') <= Len(cExpenses) /\ mounts' = mounts) =>
          Cardinality({i \in DOMAIN cExpenses :
                          i > Len(cExpenses') \/ cExpenses'[i] # cExpenses[i]}) <= 1]_vars

(***************************************************************************)
(* Onboarding: the wizard.  A field can be edited at the step that renders *)
(* it; Next is a click on the Next button, which is disabled while         *)
(* canProceed() is false; after onComplete the App renders the dashboard   *)
(* in place of the wizard.  The spending habits of step 5 are left out.    *)
(***************************************************************************)
\* parseInt of the text of the age field; -9 stands for NaN
ParseInt(text) ==
    CASE text = "17" -> 17
      [] text = "18" -> 18
      [] text = "100" -> 100
      [] text = "101" -> 101
      [] OTHER -> -9

\* variant: the button is enabled as soon as the field of the step is filled
canProceed_Filled(w) ==
    CASE w.step = 1 -> w.age # ""
      [] w.step = 2 -> w.selectedCountry # ""
      [] w.step = 3 -> w.income # ""
      [] OTHER -> TRUE

canProceed(w) ==
    CASE w.step = 1 -> w.age # "" /\ ParseInt(w.age) >= 18 /\ ParseInt(w.age) <= 100
      [] w.step = 2 -> w.selectedCountry # ""
      [] w.step = 3 -> w.income # "" /\ ~IsNaNAmount(ParseFloat(w.income))
                       /\ ParseFloat(w.income) > 0
      [] OTHER -> TRUE

\* the wizard changes, everything else stays
WizardBecomes(w) ==
    /\ wizard.completed = <<>>
    /\ wizard' = w
    /\ UNCHANGED <<cExpenses, onboardingComplete, showFirstTimeGuide, hasSeenFirstTimeGuide,
                   cNow, tz, storage, savingGoals, mounts, modal>>
    /\ UNCHANGED serverVars

setAge(text) == wizard.step = 1 /\ WizardBecomes([wizard EXCEPT !.age = text])

setSelectedCountry(country) ==
    wizard.step = 2 /\ WizardBecomes([wizard EXCEPT !.selectedCountry = country])

setIncome(text) == wizard.step = 3 /\ WizardBecomes([wizard EXCEPT !.income = text])

addExpenseRow ==
    /\ wizard.step = 4
    /\ WizardBecomes([wizard EXCEPT !.fixedExpenses = Append(@, [name |-> "", amount |-> ""])])

removeExpenseRow(index) ==
    /\ wizard.step = 4
    /\ index \in DOMAIN wizard.fixedExpenses
    /\ IF Len(wizard.fixedExpenses) > 1
       THEN WizardBecomes([wizard EXCEPT !.fixedExpenses = RemoveAt(@, index)])
       ELSE UNCHANGED vars

updateExpense(index, field, value) ==
    /\ wizard.step = 4
    /\ index \in DOMAIN wizard.fixedExpenses
    /\ WizardBecomes([wizard EXCEPT !.fixedExpenses[index] =
                          IF field = "name" THEN [@ EXCEPT !.name = value]
                          ELSE [@ EXCEPT !.amount = value]])

\* the Back button
Back == wizard.step > 1 /\ WizardBecomes([wizard EXCEPT !.step = @ - 1])

handleNext ==
    IF wizard.step = 1 /\ wizard.age # "" THEN WizardBecomes([wizard EXCEPT !.step = 2])
    ELSE IF wizard.step = 2 /\ wizard.selectedCountry # ""
    THEN WizardBecomes([wizard EXCEPT !.step = 3])
    ELSE IF wizard.step = 3 /\ wizard.income # ""
    THEN WizardBecomes([wizard EXCEPT !.step = 4])
    ELSE IF wizard.step = 4 THEN WizardBecomes([wizard EXCEPT !.step = 5])
    ELSE UNCHANGED vars

\* the Next button: rendered below step 5, disabled unless canProceed()
NextButton == wizard.step < 5 /\ canProceed(wizard) /\ handleNext

\* the rows of fixed expenses that handleFinish passes on
validExpenses(rows) ==
    LET filled == SelectSeq(rows, LAMBDA exp : exp.name # "" /\ exp.amount # "")
    IN  [i \in DOMAIN filled |->
            [name |-> filled[i].name, amount |-> ParseFloat(filled[i].amount)]]

\* the Finish button, rendered at step 5
handleFinish ==
    /\ wizard.step = 5
    /\ IF wizard.selectedCountry = ""
       THEN UNCHANGED vars
       ELSE WizardBecomes([wizard EXCEPT !.completed =
                Append(@, [age |-> ParseInt(wizard.age),
                           country |-> wizard.selectedCountry,
                           income |-> ParseFloat(wizard.income),
                           fixedExpenses |-> validExpenses(wizard.fixedExpenses)])])

(***************************************************************************)
(* Specification of the wizard                                             *)
(***************************************************************************)
MaxRows == 2

WizardAges == {"", "17", "18", "100", "101"}
WizardCountries == {"India", "Japan"}
WizardIncomes == {"", "0", "1", "-1"}
WizardRowNames == {"", "Rent"}
WizardRowAmounts == {"", "1"}

WizardAge == \E text \in WizardAges : setAge(text)
WizardCountry == \E country \in WizardCountries : setSelectedCountry(country)
WizardIncome == \E text \in WizardIncomes : setIncome(text)
WizardAddRow == Len(wizard.fixedExpenses) < MaxRows /\ addExpenseRow
WizardRemoveRow == \E index \in 1..MaxRows : removeExpenseRow(index)
WizardRowName == \E index \in 1..MaxRows, value \in WizardRowNames :
                     updateExpense(index, "name", value)
WizardRowAmount == \E index \in 1..MaxRows, value \in WizardRowAmounts :
                       updateExpense(index, "amount", value)

NextWizard ==
    \/ WizardAge \/ WizardCountry \/ WizardIncome
    \/ WizardAddRow \/ WizardRemoveRow \/ WizardRowName \/ WizardRowAmount
    \/ Back \/ NextButton \/ handleFinish

SpecWizard == Init /\ [][NextWizard]_vars

\* C29: the step of the wizard stays within 1..5 and changes by at most one
\* per action; the list of rows never has fewer than one row; onComplete is
\* called only at step 5, with an age in 18..100, a country and an income
\* above 0, and with the rows whose name and amount are both filled, whatever
\* the sequence of Next, Back, edits and Finish.
C29_WizardSteps ==
    /\ [](wizard.step \in 1..5 /\ Len(wizard.fixedExpenses) >= 1)
    /\ [][/\ wizard'.step - wizard.step \in {-1, 0, 1}
          /\ wizard'.completed # wizard.completed =>
                LET data == wizard'.completed[Len(wizard'.completed)]
                    rows == wizard.fixedExpenses
                IN  /\ wizard.step = 5
                    /\ data.age >= 18 /\ data.age <= 100
                    /\ data.country # ""
                    /\ data.income > 0
                    /\ \A i \in DOMAIN data.fixedExpenses :
                          /\ data.fixedExpenses[i].name # ""
                          /\ ~IsNaNAmount(data.fixedExpenses[i].amount)
                    /\ Len(data.fixedExpenses) =
                          Cardinality({i \in DOMAIN rows :
                                          rows[i].name # "" /\ rows[i].amount # ""})
         ]_vars

\* onComplete has been called; of the two rows one was filled and passed on
C29_Witness ==
    /\ Len(wizard.completed) = 1
    /\ Len(wizard.fixedExpenses) = 2
    /\ Len(wizard.completed[1].fixedExpenses) = 1

(***************************************************************************)
(* AddExpenseModal: the form.  The component stays mounted while the modal *)
(* is closed and keeps its fields; it renders its inputs and buttons only  *)
(* while isOpen.                                                           *)
(***************************************************************************)
\* the modal changes, everything else stays
ModalBecomes(m) ==
    /\ modal' = m
    /\ UNCHANGED <<cExpenses, onboardingComplete, showFirstTimeGuide, hasSeenFirstTimeGuide,
                   cNow, tz, storage, savingGoals, mounts, wizard>>
    /\ UNCHANGED serverVars

\* the App opens the modal
ModalOpen == ~modal.isOpen /\ ModalBecomes([modal EXCEPT !.isOpen = TRUE])

\* the X button: onClose
ModalClose ==
    /\ modal.isOpen
    /\ ModalBecomes([modal EXCEPT !.isOpen = FALSE, !.closed = @ + 1])

setAmount(text) == modal.isOpen /\ ModalBecomes([modal EXCEPT !.amount = text])

\* a button of a preset category
PresetClick(name) ==
    /\ modal.isOpen
    /\ ModalBecomes([modal EXCEPT !.category = name, !.customCategory = "",
                                  !.showCustomInput = FALSE])

\* variant: the Custom button keeps the preset category
CustomClick_KeepsCategory ==
    /\ modal.isOpen
    /\ ModalBecomes([modal EXCEPT !.showCustomInput = TRUE])

\* the Custom button
CustomClick ==
    /\ modal.isOpen
    /\ ModalBecomes([modal EXCEPT !.showCustomInput = TRUE, !.category = ""])

\* the custom category input, rendered while showCustomInput
setCustomCategory(text) ==
    /\ modal.isOpen /\ modal.showCustomInput
    /\ ModalBecomes([modal EXCEPT !.customCategory = text])

\* AddExpenseModal.handleSubmit
ModalHandleSubmit ==
    /\ modal.isOpen
    /\ IF modal.amount = "" \/ (modal.category = "" /\ modal.customCategory = "")
       THEN UNCHANGED vars
       ELSE ModalBecomes(
               [isOpen |-> FALSE, amount |-> "", category |-> "", customCategory |-> "",
                showCustomInput |-> FALSE, date |-> IsoDate(cNow),
                added |-> Append(modal.added,
                                 [amount |-> ParseFloat(modal.amount),
                                  category |-> IF modal.customCategory # ""
                                               THEN modal.customCategory
                                               ELSE modal.category,
                                  date |-> modal.date]),
                closed |-> modal.closed + 1])

(***************************************************************************)
(* Specification of the form                                               *)
(***************************************************************************)
MaxAdded == 2
MaxClosed == 3

FormAmounts == {"", "1"}
FormPresets == {"Eating Out", "Shopping"}
FormCustomNames == {"", "Gift"}

FormOpen == modal.closed < MaxClosed /\ ModalOpen
FormClose == ModalClose
FormAmount == \E text \in FormAmounts : setAmount(text)
FormPreset == \E name \in FormPresets : PresetClick(name)
FormCustom == CustomClick
FormCustomName == \E text \in FormCustomNames : setCustomCategory(text)
FormSubmit == Len(modal.added) < MaxAdded /\ ModalHandleSubmit

NextForm ==
    \/ FormOpen \/ FormClose \/ FormAmount \/ FormPreset \/ FormCustom
    \/ FormCustomName \/ FormSubmit

SpecForm == Init /\ [][NextForm]_vars

\* the category that the form shows as selected: the custom name while the
\* Custom button is highlighted, else the highlighted preset
ShownCategory(m) == IF m.showCustomInput THEN m.customCategory ELSE m.category

\* C30: category and customCategory are never both non-empty, and
\* customCategory is non-empty only while the custom input is shown; a submit
\* with an amount and a category calls onAdd once, with the category shown as
\* selected, resets the form and closes; a submit with an empty amount or no
\* category calls neither onAdd nor onClose and leaves the form as it is.
C30_FormCategory ==
    /\ [](/\ ~(modal.category # "" /\ modal.customCategory # "")
          /\ modal.customCategory # "" => modal.showCustomInput)
    /\ [][ModalHandleSubmit =>
             IF modal.amount = "" \/ ShownCategory(modal) = ""
             THEN modal' = modal
             ELSE /\ modal'.added = Append(modal.added,
                                           [amount |-> ParseFloat(modal.amount),
                                            category |-> ShownCategory(modal),
                                            date |-> modal.date])
                  /\ modal'.closed = modal.closed + 1
                  /\ modal'.amount = "" /\ modal'.category = ""
                  /\ modal'.customCategory = "" /\ ~modal'.showCustomInput
                  /\ modal'.date = IsoDate(cNow)
          ]_vars

\* a preset was chosen, then Custom and a custom name, and the submit passed
\* the custom name on and reset the form
C30_Witness ==
    /\ Len(modal.added) = 2
    /\ modal.added[1].category = "Shopping"
    /\ modal.added[2].category = "Gift"
    /\ modal.amount = "" /\ modal.category = "" /\ ~modal.showCustomInput

====
